---- MODULE Spec2Model ----
(***************************************************************************)
(* Model of the Speaker Session Manager of noti-fin: the React hook        *)
(* useBluetoothService (device discovery, logical connection, speech       *)
(* dispatch) together with the engine it drives.                           *)
(*                                                                         *)
(* Text is modelled as sequences of one-character strings so that          *)
(* toLowerCase and includes are computed, not assumed.  A character        *)
(* outside ASCII is written as its code point, "u1EA3" for U+1EA3.         *)
(*                                                                         *)
(* A hook function reads the state of the render it was created in: an     *)
(* asynchronous function keeps reading that captured state after an await, *)
(* while functional updates (setDevices(prev => ...)) act on the current   *)
(* state.  Both are modelled as the code has them.                         *)
(***************************************************************************)
EXTENDS Naturals, Sequences, FiniteSets

VARIABLES
    mounted,          \* the mount effect (useEffect, []) has run
    devices,          \* useState devices
    connectedDevice,  \* useState connectedDevice (None = null)
    isScanning,       \* useState isScanning
    scanQ,            \* scanForDevices calls waiting on their 1500 ms timer, oldest first
    prompts,          \* open "System Connection Required" alerts: the device each captured
    last,             \* the operation that completed last, with what it reported
    nScans,           \* user scans issued so far
    nForce,           \* forceConnectToDevice calls issued so far
    ActiveTts,        \* the module-level engine reference: "Tts" or "MockTts"
    initPc,           \* where initTts stands
    listening,        \* the tts-* events initTts registered a listener for
    isSpeaking,       \* useState isSpeaking
    vietnamesePhrases,\* vietnamesePhrases.current, in Object.entries order
    calls,            \* speak calls suspended at an await
    timers,           \* pending 1000 ms settle timers (the call that set each), oldest first
    utterances,       \* what the native engine holds: accepted utterances not yet over
    engineCalls,      \* calls made to ActiveTts.stop / ActiveTts.speak so far
    spoken,           \* the text last handed to ActiveTts.speak
    lastDispatch,     \* the last call of ActiveTts.speak: by which speak, in what situation
    lastSpeak,        \* the speak call that returned last, with what it reported
    nSpeaks,          \* speak calls issued so far
    firstInserted,    \* the keys of vietnamesePhrases.current in the order they were first added
    phraseAlert,      \* the alert the last phrase addition raised
    lastPhrase,       \* the phrase addition made last: its arguments, its caller and
                      \* the translation its key held before (<<>> when it held none)
    nPhrases,         \* phrase additions made so far
    throwing,         \* the engine methods that throw instead of returning a promise
    availableLanguages, \* useState availableLanguages
    initCalled,       \* the engine methods initTts has called so far
    initFailed,       \* those of setDefaultLanguage/Rate/Pitch whose call failed in initTts
    initVoices,       \* the voice query of initTts: its timer, the engine's answer, its result
    langCalls,        \* the getAvailableLanguages calls made so far, each with its voice query
    nLang,            \* getAvailableLanguages calls issued so far
    screenAlerts,     \* the open alerts of checkSystemConnection, handleConnectByButton,
                      \* forceConnectToDevice (empty list) and openBluetoothSettings,
                      \* oldest first
    linking,          \* openBluetoothSettings calls waiting for the promise of Linking
    serviceConnectedDevice, \* useState connectedDevice of the hook instance inside
                      \* useNotificationService
    lastPayment,      \* the payment notification processed last, with what became of it
    nPayments         \* payment notifications processed so far

devVars == <<mounted, devices, connectedDevice, isScanning, scanQ, prompts, last, nScans, nForce>>

ttsVars == <<ActiveTts, initPc, listening, isSpeaking, vietnamesePhrases, calls, timers,
             utterances, engineCalls, spoken, lastDispatch, lastSpeak, nSpeaks>>

phraseVars == <<firstInserted, phraseAlert, lastPhrase, nPhrases>>

engVars == <<throwing, availableLanguages, initCalled, initFailed, initVoices, langCalls, nLang>>

alertVars == <<screenAlerts, linking>>

payVars == <<serviceConnectedDevice, lastPayment, nPayments>>

appVars == <<alertVars, payVars>>

\* what the device and speech operations never touch
extVars == <<phraseVars, engVars, appVars>>

vars == <<mounted, devices, connectedDevice, isScanning, scanQ, prompts, last, nScans, nForce,
          ActiveTts, initPc, listening, isSpeaking, vietnamesePhrases, calls, timers,
          utterances, engineCalls, spoken, lastDispatch, lastSpeak, nSpeaks,
          firstInserted, phraseAlert, lastPhrase, nPhrases,
          throwing, availableLanguages, initCalled, initFailed, initVoices, langCalls, nLang,
          screenAlerts, linking, serviceConnectedDevice, lastPayment, nPayments>>

\* JavaScript null (a record, so that it compares with a device)
None == [null |-> TRUE]

(***************************************************************************)
(* Bounds of the model.                                                    *)
(***************************************************************************)
MaxScans == 1
MaxForce == 1
MaxPrompts == 1
MaxSpeaks == 2
MaxPhrases == 2
MaxPhraseSpeaks == 1
MaxLangCalls == 1
MaxPayments == 2
MaxOps == 2
MaxAlerts == 2
MaxLinking == 1

(***************************************************************************)
(* Text.                                                                   *)
(***************************************************************************)
UpperChars == <<"A","B","C","D","E","F","G","H","I","J","K","L","M",
                "N","O","P","Q","R","S","T","U","V","W","X","Y","Z">>
LowerChars == <<"a","b","c","d","e","f","g","h","i","j","k","l","m",
                "n","o","p","q","r","s","t","u","v","w","x","y","z">>

\* the characters above U+007F that toLowerCase maps to one other character,
\* and what it maps each to (a character above U+007F, and the grave accent
\* U+0060, are written uXXXX, by their code unit)
OtherUpperChars == <<
    "u00C0","u00C1","u00C2","u00C3","u00C4","u00C5","u00C6","u00C7","u00C8","u00C9","u00CA",
    "u00CB","u00CC","u00CD","u00CE","u00CF","u00D0","u00D1","u00D2","u00D3","u00D4","u00D5",
    "u00D6","u00D8","u00D9","u00DA","u00DB","u00DC","u00DD","u00DE","u0100","u0102","u0104",
    "u0106","u0108","u010A","u010C","u010E","u0110","u0112","u0114","u0116","u0118","u011A",
    "u011C","u011E","u0120","u0122","u0124","u0126","u0128","u012A","u012C","u012E","u0132",
    "u0134","u0136","u0139","u013B","u013D","u013F","u0141","u0143","u0145","u0147","u014A",
    "u014C","u014E","u0150","u0152","u0154","u0156","u0158","u015A","u015C","u015E","u0160",
    "u0162","u0164","u0166","u0168","u016A","u016C","u016E","u0170","u0172","u0174","u0176",
    "u0178","u0179","u017B","u017D","u0181","u0182","u0184","u0186","u0187","u0189","u018A",
    "u018B","u018E","u018F","u0190","u0191","u0193","u0194","u0196","u0197","u0198","u019C",
    "u019D","u019F","u01A0","u01A2","u01A4","u01A6","u01A7","u01A9","u01AC","u01AE","u01AF",
    "u01B1","u01B2","u01B3","u01B5","u01B7","u01B8","u01BC","u01C4","u01C5","u01C7","u01C8",
    "u01CA","u01CB","u01CD","u01CF","u01D1","u01D3","u01D5","u01D7","u01D9","u01DB","u01DE",
    "u01E0","u01E2","u01E4","u01E6","u01E8","u01EA","u01EC","u01EE","u01F1","u01F2","u01F4",
    "u01F6","u01F7","u01F8","u01FA","u01FC","u01FE","u0200","u0202","u0204","u0206","u0208",
    "u020A","u020C","u020E","u0210","u0212","u0214","u0216","u0218","u021A","u021C","u021E",
    "u0220","u0222","u0224","u0226","u0228","u022A","u022C","u022E","u0230","u0232","u023A",
    "u023B","u023D","u023E","u0241","u0243","u0244","u0245","u0246","u0248","u024A","u024C",
    "u024E","u0370","u0372","u0376","u037F","u0386","u0388","u0389","u038A","u038C","u038E",
    "u038F","u0391","u0392","u0393","u0394","u0395","u0396","u0397","u0398","u0399","u039A",
    "u039B","u039C","u039D","u039E","u039F","u03A0","u03A1","u03A3","u03A4","u03A5","u03A6",
    "u03A7","u03A8","u03A9","u03AA","u03AB","u03CF","u03D8","u03DA","u03DC","u03DE","u03E0",
    "u03E2","u03E4","u03E6","u03E8","u03EA","u03EC","u03EE","u03F4","u03F7","u03F9","u03FA",
    "u03FD","u03FE","u03FF","u0400","u0401","u0402","u0403","u0404","u0405","u0406","u0407",
    "u0408","u0409","u040A","u040B","u040C","u040D","u040E","u040F","u0410","u0411","u0412",
    "u0413","u0414","u0415","u0416","u0417","u0418","u0419","u041A","u041B","u041C","u041D",
    "u041E","u041F","u0420","u0421","u0422","u0423","u0424","u0425","u0426","u0427","u0428",
    "u0429","u042A","u042B","u042C","u042D","u042E","u042F","u0460","u0462","u0464","u0466",
    "u0468","u046A","u046C","u046E","u0470","u0472","u0474","u0476","u0478","u047A","u047C",
    "u047E","u0480","u048A","u048C","u048E","u0490","u0492","u0494","u0496","u0498","u049A",
    "u049C","u049E","u04A0","u04A2","u04A4","u04A6","u04A8","u04AA","u04AC","u04AE","u04B0",
    "u04B2","u04B4","u04B6","u04B8","u04BA","u04BC","u04BE","u04C0","u04C1","u04C3","u04C5",
    "u04C7","u04C9","u04CB","u04CD","u04D0","u04D2","u04D4","u04D6","u04D8","u04DA","u04DC",
    "u04DE","u04E0","u04E2","u04E4","u04E6","u04E8","u04EA","u04EC","u04EE","u04F0","u04F2",
    "u04F4","u04F6","u04F8","u04FA","u04FC","u04FE","u0500","u0502","u0504","u0506","u0508",
    "u050A","u050C","u050E","u0510","u0512","u0514","u0516","u0518","u051A","u051C","u051E",
    "u0520","u0522","u0524","u0526","u0528","u052A","u052C","u052E","u0531","u0532","u0533",
    "u0534","u0535","u0536","u0537","u0538","u0539","u053A","u053B","u053C","u053D","u053E",
    "u053F","u0540","u0541","u0542","u0543","u0544","u0545","u0546","u0547","u0548","u0549",
    "u054A","u054B","u054C","u054D","u054E","u054F","u0550","u0551","u0552","u0553","u0554",
    "u0555","u0556","u10A0","u10A1","u10A2","u10A3","u10A4","u10A5","u10A6","u10A7","u10A8",
    "u10A9","u10AA","u10AB","u10AC","u10AD","u10AE","u10AF","u10B0","u10B1","u10B2","u10B3",
    "u10B4","u10B5","u10B6","u10B7","u10B8","u10B9","u10BA","u10BB","u10BC","u10BD","u10BE",
    "u10BF","u10C0","u10C1","u10C2","u10C3","u10C4","u10C5","u10C7","u10CD","u13A0","u13A1",
    "u13A2","u13A3","u13A4","u13A5","u13A6","u13A7","u13A8","u13A9","u13AA","u13AB","u13AC",
    "u13AD","u13AE","u13AF","u13B0","u13B1","u13B2","u13B3","u13B4","u13B5","u13B6","u13B7",
    "u13B8","u13B9","u13BA","u13BB","u13BC","u13BD","u13BE","u13BF","u13C0","u13C1","u13C2",
    "u13C3","u13C4","u13C5","u13C6","u13C7","u13C8","u13C9","u13CA","u13CB","u13CC","u13CD",
    "u13CE","u13CF","u13D0","u13D1","u13D2","u13D3","u13D4","u13D5","u13D6","u13D7","u13D8",
    "u13D9","u13DA","u13DB","u13DC","u13DD","u13DE","u13DF","u13E0","u13E1","u13E2","u13E3",
    "u13E4","u13E5","u13E6","u13E7","u13E8","u13E9","u13EA","u13EB","u13EC","u13ED","u13EE",
    "u13EF","u13F0","u13F1","u13F2","u13F3","u13F4","u13F5","u1C89","u1C90","u1C91","u1C92",
    "u1C93","u1C94","u1C95","u1C96","u1C97","u1C98","u1C99","u1C9A","u1C9B","u1C9C","u1C9D",
    "u1C9E","u1C9F","u1CA0","u1CA1","u1CA2","u1CA3","u1CA4","u1CA5","u1CA6","u1CA7","u1CA8",
    "u1CA9","u1CAA","u1CAB","u1CAC","u1CAD","u1CAE","u1CAF","u1CB0","u1CB1","u1CB2","u1CB3",
    "u1CB4","u1CB5","u1CB6","u1CB7","u1CB8","u1CB9","u1CBA","u1CBD","u1CBE","u1CBF","u1E00",
    "u1E02","u1E04","u1E06","u1E08","u1E0A","u1E0C","u1E0E","u1E10","u1E12","u1E14","u1E16",
    "u1E18","u1E1A","u1E1C","u1E1E","u1E20","u1E22","u1E24","u1E26","u1E28","u1E2A","u1E2C",
    "u1E2E","u1E30","u1E32","u1E34","u1E36","u1E38","u1E3A","u1E3C","u1E3E","u1E40","u1E42",
    "u1E44","u1E46","u1E48","u1E4A","u1E4C","u1E4E","u1E50","u1E52","u1E54","u1E56","u1E58",
    "u1E5A","u1E5C","u1E5E","u1E60","u1E62","u1E64","u1E66","u1E68","u1E6A","u1E6C","u1E6E",
    "u1E70","u1E72","u1E74","u1E76","u1E78","u1E7A","u1E7C","u1E7E","u1E80","u1E82","u1E84",
    "u1E86","u1E88","u1E8A","u1E8C","u1E8E","u1E90","u1E92","u1E94","u1E9E","u1EA0","u1EA2",
    "u1EA4","u1EA6","u1EA8","u1EAA","u1EAC","u1EAE","u1EB0","u1EB2","u1EB4","u1EB6","u1EB8",
    "u1EBA","u1EBC","u1EBE","u1EC0","u1EC2","u1EC4","u1EC6","u1EC8","u1ECA","u1ECC","u1ECE",
    "u1ED0","u1ED2","u1ED4","u1ED6","u1ED8","u1EDA","u1EDC","u1EDE","u1EE0","u1EE2","u1EE4",
    "u1EE6","u1EE8","u1EEA","u1EEC","u1EEE","u1EF0","u1EF2","u1EF4","u1EF6","u1EF8","u1EFA",
    "u1EFC","u1EFE","u1F08","u1F09","u1F0A","u1F0B","u1F0C","u1F0D","u1F0E","u1F0F","u1F18",
    "u1F19","u1F1A","u1F1B","u1F1C","u1F1D","u1F28","u1F29","u1F2A","u1F2B","u1F2C","u1F2D",
    "u1F2E","u1F2F","u1F38","u1F39","u1F3A","u1F3B","u1F3C","u1F3D","u1F3E","u1F3F","u1F48",
    "u1F49","u1F4A","u1F4B","u1F4C","u1F4D","u1F59","u1F5B","u1F5D","u1F5F","u1F68","u1F69",
    "u1F6A","u1F6B","u1F6C","u1F6D","u1F6E","u1F6F","u1F88","u1F89","u1F8A","u1F8B","u1F8C",
    "u1F8D","u1F8E","u1F8F","u1F98","u1F99","u1F9A","u1F9B","u1F9C","u1F9D","u1F9E","u1F9F",
    "u1FA8","u1FA9","u1FAA","u1FAB","u1FAC","u1FAD","u1FAE","u1FAF","u1FB8","u1FB9","u1FBA",
    "u1FBB","u1FBC","u1FC8","u1FC9","u1FCA","u1FCB","u1FCC","u1FD8","u1FD9","u1FDA","u1FDB",
    "u1FE8","u1FE9","u1FEA","u1FEB","u1FEC","u1FF8","u1FF9","u1FFA","u1FFB","u1FFC","u2126",
    "u212A","u212B","u2132","u2160","u2161","u2162","u2163","u2164","u2165","u2166","u2167",
    "u2168","u2169","u216A","u216B","u216C","u216D","u216E","u216F","u2183","u24B6","u24B7",
    "u24B8","u24B9","u24BA","u24BB","u24BC","u24BD","u24BE","u24BF","u24C0","u24C1","u24C2",
    "u24C3","u24C4","u24C5","u24C6","u24C7","u24C8","u24C9","u24CA","u24CB","u24CC","u24CD",
    "u24CE","u24CF","u2C00","u2C01","u2C02","u2C03","u2C04","u2C05","u2C06","u2C07","u2C08",
    "u2C09","u2C0A","u2C0B","u2C0C","u2C0D","u2C0E","u2C0F","u2C10","u2C11","u2C12","u2C13",
    "u2C14","u2C15","u2C16","u2C17","u2C18","u2C19","u2C1A","u2C1B","u2C1C","u2C1D","u2C1E",
    "u2C1F","u2C20","u2C21","u2C22","u2C23","u2C24","u2C25","u2C26","u2C27","u2C28","u2C29",
    "u2C2A","u2C2B","u2C2C","u2C2D","u2C2E","u2C2F","u2C60","u2C62","u2C63","u2C64","u2C67",
    "u2C69","u2C6B","u2C6D","u2C6E","u2C6F","u2C70","u2C72","u2C75","u2C7E","u2C7F","u2C80",
    "u2C82","u2C84","u2C86","u2C88","u2C8A","u2C8C","u2C8E","u2C90","u2C92","u2C94","u2C96",
    "u2C98","u2C9A","u2C9C","u2C9E","u2CA0","u2CA2","u2CA4","u2CA6","u2CA8","u2CAA","u2CAC",
    "u2CAE","u2CB0","u2CB2","u2CB4","u2CB6","u2CB8","u2CBA","u2CBC","u2CBE","u2CC0","u2CC2",
    "u2CC4","u2CC6","u2CC8","u2CCA","u2CCC","u2CCE","u2CD0","u2CD2","u2CD4","u2CD6","u2CD8",
    "u2CDA","u2CDC","u2CDE","u2CE0","u2CE2","u2CEB","u2CED","u2CF2","uA640","uA642","uA644",
    "uA646","uA648","uA64A","uA64C","uA64E","uA650","uA652","uA654","uA656","uA658","uA65A",
    "uA65C","uA65E","uA660","uA662","uA664","uA666","uA668","uA66A","uA66C","uA680","uA682",
    "uA684","uA686","uA688","uA68A","uA68C","uA68E","uA690","uA692","uA694","uA696","uA698",
    "uA69A","uA722","uA724","uA726","uA728","uA72A","uA72C","uA72E","uA732","uA734","uA736",
    "uA738","uA73A","uA73C","uA73E","uA740","uA742","uA744","uA746","uA748","uA74A","uA74C",
    "uA74E","uA750","uA752","uA754","uA756","uA758","uA75A","uA75C","uA75E","uA760","uA762",
    "uA764","uA766","uA768","uA76A","uA76C","uA76E","uA779","uA77B","uA77D","uA77E","uA780",
    "uA782","uA784","uA786","uA78B","uA78D","uA790","uA792","uA796","uA798","uA79A","uA79C",
    "uA79E","uA7A0","uA7A2","uA7A4","uA7A6","uA7A8","uA7AA","uA7AB","uA7AC","uA7AD","uA7AE",
    "uA7B0","uA7B1","uA7B2","uA7B3","uA7B4","uA7B6","uA7B8","uA7BA","uA7BC","uA7BE","uA7C0",
    "uA7C2","uA7C4","uA7C5","uA7C6","uA7C7","uA7C9","uA7CB","uA7CC","uA7CE","uA7D0","uA7D2",
    "uA7D4","uA7D6","uA7D8","uA7DA","uA7DC","uA7F5","uFF21","uFF22","uFF23","uFF24","uFF25",
    "uFF26","uFF27","uFF28","uFF29","uFF2A","uFF2B","uFF2C","uFF2D","uFF2E","uFF2F","uFF30",
    "uFF31","uFF32","uFF33","uFF34","uFF35","uFF36","uFF37","uFF38","uFF39","uFF3A" >>

OtherLowerChars == <<
    "u00E0","u00E1","u00E2","u00E3","u00E4","u00E5","u00E6","u00E7","u00E8","u00E9","u00EA",
    "u00EB","u00EC","u00ED","u00EE","u00EF","u00F0","u00F1","u00F2","u00F3","u00F4","u00F5",
    "u00F6","u00F8","u00F9","u00FA","u00FB","u00FC","u00FD","u00FE","u0101","u0103","u0105",
    "u0107","u0109","u010B","u010D","u010F","u0111","u0113","u0115","u0117","u0119","u011B",
    "u011D","u011F","u0121","u0123","u0125","u0127","u0129","u012B","u012D","u012F","u0133",
    "u0135","u0137","u013A","u013C","u013E","u0140","u0142","u0144","u0146","u0148","u014B",
    "u014D","u014F","u0151","u0153","u0155","u0157","u0159","u015B","u015D","u015F","u0161",
    "u0163","u0165","u0167","u0169","u016B","u016D","u016F","u0171","u0173","u0175","u0177",
    "u00FF","u017A","u017C","u017E","u0253","u0183","u0185","u0254","u0188","u0256","u0257",
    "u018C","u01DD","u0259","u025B","u0192","u0260","u0263","u0269","u0268","u0199","u026F",
    "u0272","u0275","u01A1","u01A3","u01A5","u0280","u01A8","u0283","u01AD","u0288","u01B0",
    "u028A","u028B","u01B4","u01B6","u0292","u01B9","u01BD","u01C6","u01C6","u01C9","u01C9",
    "u01CC","u01CC","u01CE","u01D0","u01D2","u01D4","u01D6","u01D8","u01DA","u01DC","u01DF",
    "u01E1","u01E3","u01E5","u01E7","u01E9","u01EB","u01ED","u01EF","u01F3","u01F3","u01F5",
    "u0195","u01BF","u01F9","u01FB","u01FD","u01FF","u0201","u0203","u0205","u0207","u0209",
    "u020B","u020D","u020F","u0211","u0213","u0215","u0217","u0219","u021B","u021D","u021F",
    "u019E","u0223","u0225","u0227","u0229","u022B","u022D","u022F","u0231","u0233","u2C65",
    "u023C","u019A","u2C66","u0242","u0180","u0289","u028C","u0247","u0249","u024B","u024D",
    "u024F","u0371","u0373","u0377","u03F3","u03AC","u03AD","u03AE","u03AF","u03CC","u03CD",
    "u03CE","u03B1","u03B2","u03B3","u03B4","u03B5","u03B6","u03B7","u03B8","u03B9","u03BA",
    "u03BB","u03BC","u03BD","u03BE","u03BF","u03C0","u03C1","u03C3","u03C4","u03C5","u03C6",
    "u03C7","u03C8","u03C9","u03CA","u03CB","u03D7","u03D9","u03DB","u03DD","u03DF","u03E1",
    "u03E3","u03E5","u03E7","u03E9","u03EB","u03ED","u03EF","u03B8","u03F8","u03F2","u03FB",
    "u037B","u037C","u037D","u0450","u0451","u0452","u0453","u0454","u0455","u0456","u0457",
    "u0458","u0459","u045A","u045B","u045C","u045D","u045E","u045F","u0430","u0431","u0432",
    "u0433","u0434","u0435","u0436","u0437","u0438","u0439","u043A","u043B","u043C","u043D",
    "u043E","u043F","u0440","u0441","u0442","u0443","u0444","u0445","u0446","u0447","u0448",
    "u0449","u044A","u044B","u044C","u044D","u044E","u044F","u0461","u0463","u0465","u0467",
    "u0469","u046B","u046D","u046F","u0471","u0473","u0475","u0477","u0479","u047B","u047D",
    "u047F","u0481","u048B","u048D","u048F","u0491","u0493","u0495","u0497","u0499","u049B",
    "u049D","u049F","u04A1","u04A3","u04A5","u04A7","u04A9","u04AB","u04AD","u04AF","u04B1",
    "u04B3","u04B5","u04B7","u04B9","u04BB","u04BD","u04BF","u04CF","u04C2","u04C4","u04C6",
    "u04C8","u04CA","u04CC","u04CE","u04D1","u04D3","u04D5","u04D7","u04D9","u04DB","u04DD",
    "u04DF","u04E1","u04E3","u04E5","u04E7","u04E9","u04EB","u04ED","u04EF","u04F1","u04F3",
    "u04F5","u04F7","u04F9","u04FB","u04FD","u04FF","u0501","u0503","u0505","u0507","u0509",
    "u050B","u050D","u050F","u0511","u0513","u0515","u0517","u0519","u051B","u051D","u051F",
    "u0521","u0523","u0525","u0527","u0529","u052B","u052D","u052F","u0561","u0562","u0563",
    "u0564","u0565","u0566","u0567","u0568","u0569","u056A","u056B","u056C","u056D","u056E",
    "u056F","u0570","u0571","u0572","u0573","u0574","u0575","u0576","u0577","u0578","u0579",
    "u057A","u057B","u057C","u057D","u057E","u057F","u0580","u0581","u0582","u0583","u0584",
    "u0585","u0586","u2D00","u2D01","u2D02","u2D03","u2D04","u2D05","u2D06","u2D07","u2D08",
    "u2D09","u2D0A","u2D0B","u2D0C","u2D0D","u2D0E","u2D0F","u2D10","u2D11","u2D12","u2D13",
    "u2D14","u2D15","u2D16","u2D17","u2D18","u2D19","u2D1A","u2D1B","u2D1C","u2D1D","u2D1E",
    "u2D1F","u2D20","u2D21","u2D22","u2D23","u2D24","u2D25","u2D27","u2D2D","uAB70","uAB71",
    "uAB72","uAB73","uAB74","uAB75","uAB76","uAB77","uAB78","uAB79","uAB7A","uAB7B","uAB7C",
    "uAB7D","uAB7E","uAB7F","uAB80","uAB81","uAB82","uAB83","uAB84","uAB85","uAB86","uAB87",
    "uAB88","uAB89","uAB8A","uAB8B","uAB8C","uAB8D","uAB8E","uAB8F","uAB90","uAB91","uAB92",
    "uAB93","uAB94","uAB95","uAB96","uAB97","uAB98","uAB99","uAB9A","uAB9B","uAB9C","uAB9D",
    "uAB9E","uAB9F","uABA0","uABA1","uABA2","uABA3","uABA4","uABA5","uABA6","uABA7","uABA8",
    "uABA9","uABAA","uABAB","uABAC","uABAD","uABAE","uABAF","uABB0","uABB1","uABB2","uABB3",
    "uABB4","uABB5","uABB6","uABB7","uABB8","uABB9","uABBA","uABBB","uABBC","uABBD","uABBE",
    "uABBF","u13F8","u13F9","u13FA","u13FB","u13FC","u13FD","u1C8A","u10D0","u10D1","u10D2",
    "u10D3","u10D4","u10D5","u10D6","u10D7","u10D8","u10D9","u10DA","u10DB","u10DC","u10DD",
    "u10DE","u10DF","u10E0","u10E1","u10E2","u10E3","u10E4","u10E5","u10E6","u10E7","u10E8",
    "u10E9","u10EA","u10EB","u10EC","u10ED","u10EE","u10EF","u10F0","u10F1","u10F2","u10F3",
    "u10F4","u10F5","u10F6","u10F7","u10F8","u10F9","u10FA","u10FD","u10FE","u10FF","u1E01",
    "u1E03","u1E05","u1E07","u1E09","u1E0B","u1E0D","u1E0F","u1E11","u1E13","u1E15","u1E17",
    "u1E19","u1E1B","u1E1D","u1E1F","u1E21","u1E23","u1E25","u1E27","u1E29","u1E2B","u1E2D",
    "u1E2F","u1E31","u1E33","u1E35","u1E37","u1E39","u1E3B","u1E3D","u1E3F","u1E41","u1E43",
    "u1E45","u1E47","u1E49","u1E4B","u1E4D","u1E4F","u1E51","u1E53","u1E55","u1E57","u1E59",
    "u1E5B","u1E5D","u1E5F","u1E61","u1E63","u1E65","u1E67","u1E69","u1E6B","u1E6D","u1E6F",
    "u1E71","u1E73","u1E75","u1E77","u1E79","u1E7B","u1E7D","u1E7F","u1E81","u1E83","u1E85",
    "u1E87","u1E89","u1E8B","u1E8D","u1E8F","u1E91","u1E93","u1E95","u00DF","u1EA1","u1EA3",
    "u1EA5","u1EA7","u1EA9","u1EAB","u1EAD","u1EAF","u1EB1","u1EB3","u1EB5","u1EB7","u1EB9",
    "u1EBB","u1EBD","u1EBF","u1EC1","u1EC3","u1EC5","u1EC7","u1EC9","u1ECB","u1ECD","u1ECF",
    "u1ED1","u1ED3","u1ED5","u1ED7","u1ED9","u1EDB","u1EDD","u1EDF","u1EE1","u1EE3","u1EE5",
    "u1EE7","u1EE9","u1EEB","u1EED","u1EEF","u1EF1","u1EF3","u1EF5","u1EF7","u1EF9","u1EFB",
    "u1EFD","u1EFF","u1F00","u1F01","u1F02","u1F03","u1F04","u1F05","u1F06","u1F07","u1F10",
    "u1F11","u1F12","u1F13","u1F14","u1F15","u1F20","u1F21","u1F22","u1F23","u1F24","u1F25",
    "u1F26","u1F27","u1F30","u1F31","u1F32","u1F33","u1F34","u1F35","u1F36","u1F37","u1F40",
    "u1F41","u1F42","u1F43","u1F44","u1F45","u1F51","u1F53","u1F55","u1F57","u1F60","u1F61",
    "u1F62","u1F63","u1F64","u1F65","u1F66","u1F67","u1F80","u1F81","u1F82","u1F83","u1F84",
    "u1F85","u1F86","u1F87","u1F90","u1F91","u1F92","u1F93","u1F94","u1F95","u1F96","u1F97",
    "u1FA0","u1FA1","u1FA2","u1FA3","u1FA4","u1FA5","u1FA6","u1FA7","u1FB0","u1FB1","u1F70",
    "u1F71","u1FB3","u1F72","u1F73","u1F74","u1F75","u1FC3","u1FD0","u1FD1","u1F76","u1F77",
    "u1FE0","u1FE1","u1F7A","u1F7B","u1FE5","u1F78","u1F79","u1F7C","u1F7D","u1FF3","u03C9","k",
    "u00E5","u214E","u2170","u2171","u2172","u2173","u2174","u2175","u2176","u2177","u2178",
    "u2179","u217A","u217B","u217C","u217D","u217E","u217F","u2184","u24D0","u24D1","u24D2",
    "u24D3","u24D4","u24D5","u24D6","u24D7","u24D8","u24D9","u24DA","u24DB","u24DC","u24DD",
    "u24DE","u24DF","u24E0","u24E1","u24E2","u24E3","u24E4","u24E5","u24E6","u24E7","u24E8",
    "u24E9","u2C30","u2C31","u2C32","u2C33","u2C34","u2C35","u2C36","u2C37","u2C38","u2C39",
    "u2C3A","u2C3B","u2C3C","u2C3D","u2C3E","u2C3F","u2C40","u2C41","u2C42","u2C43","u2C44",
    "u2C45","u2C46","u2C47","u2C48","u2C49","u2C4A","u2C4B","u2C4C","u2C4D","u2C4E","u2C4F",
    "u2C50","u2C51","u2C52","u2C53","u2C54","u2C55","u2C56","u2C57","u2C58","u2C59","u2C5A",
    "u2C5B","u2C5C","u2C5D","u2C5E","u2C5F","u2C61","u026B","u1D7D","u027D","u2C68","u2C6A",
    "u2C6C","u0251","u0271","u0250","u0252","u2C73","u2C76","u023F","u0240","u2C81","u2C83",
    "u2C85","u2C87","u2C89","u2C8B","u2C8D","u2C8F","u2C91","u2C93","u2C95","u2C97","u2C99",
    "u2C9B","u2C9D","u2C9F","u2CA1","u2CA3","u2CA5","u2CA7","u2CA9","u2CAB","u2CAD","u2CAF",
    "u2CB1","u2CB3","u2CB5","u2CB7","u2CB9","u2CBB","u2CBD","u2CBF","u2CC1","u2CC3","u2CC5",
    "u2CC7","u2CC9","u2CCB","u2CCD","u2CCF","u2CD1","u2CD3","u2CD5","u2CD7","u2CD9","u2CDB",
    "u2CDD","u2CDF","u2CE1","u2CE3","u2CEC","u2CEE","u2CF3","uA641","uA643","uA645","uA647",
    "uA649","uA64B","uA64D","uA64F","uA651","uA653","uA655","uA657","uA659","uA65B","uA65D",
    "uA65F","uA661","uA663","uA665","uA667","uA669","uA66B","uA66D","uA681","uA683","uA685",
    "uA687","uA689","uA68B","uA68D","uA68F","uA691","uA693","uA695","uA697","uA699","uA69B",
    "uA723","uA725","uA727","uA729","uA72B","uA72D","uA72F","uA733","uA735","uA737","uA739",
    "uA73B","uA73D","uA73F","uA741","uA743","uA745","uA747","uA749","uA74B","uA74D","uA74F",
    "uA751","uA753","uA755","uA757","uA759","uA75B","uA75D","uA75F","uA761","uA763","uA765",
    "uA767","uA769","uA76B","uA76D","uA76F","uA77A","uA77C","u1D79","uA77F","uA781","uA783",
    "uA785","uA787","uA78C","u0265","uA791","uA793","uA797","uA799","uA79B","uA79D","uA79F",
    "uA7A1","uA7A3","uA7A5","uA7A7","uA7A9","u0266","u025C","u0261","u026C","u026A","u029E",
    "u0287","u029D","uAB53","uA7B5","uA7B7","uA7B9","uA7BB","uA7BD","uA7BF","uA7C1","uA7C3",
    "uA794","u0282","u1D8E","uA7C8","uA7CA","u0264","uA7CD","uA7CF","uA7D1","uA7D3","uA7D5",
    "uA7D7","uA7D9","uA7DB","u019B","uA7F6","uFF41","uFF42","uFF43","uFF44","uFF45","uFF46",
    "uFF47","uFF48","uFF49","uFF4A","uFF4B","uFF4C","uFF4D","uFF4E","uFF4F","uFF50","uFF51",
    "uFF52","uFF53","uFF54","uFF55","uFF56","uFF57","uFF58","uFF59","uFF5A" >>

OtherUpperSet == { OtherUpperChars[i] : i \in DOMAIN OtherUpperChars }

\* the characters above U+007F with the Unicode property Cased
OtherCasedChars == {
    "u00AA","u00B5","u00BA","u00C0","u00C1","u00C2","u00C3","u00C4","u00C5","u00C6","u00C7",
    "u00C8","u00C9","u00CA","u00CB","u00CC","u00CD","u00CE","u00CF","u00D0","u00D1","u00D2",
    "u00D3","u00D4","u00D5","u00D6","u00D8","u00D9","u00DA","u00DB","u00DC","u00DD","u00DE",
    "u00DF","u00E0","u00E1","u00E2","u00E3","u00E4","u00E5","u00E6","u00E7","u00E8","u00E9",
    "u00EA","u00EB","u00EC","u00ED","u00EE","u00EF","u00F0","u00F1","u00F2","u00F3","u00F4",
    "u00F5","u00F6","u00F8","u00F9","u00FA","u00FB","u00FC","u00FD","u00FE","u00FF","u0100",
    "u0101","u0102","u0103","u0104","u0105","u0106","u0107","u0108","u0109","u010A","u010B",
    "u010C","u010D","u010E","u010F","u0110","u0111","u0112","u0113","u0114","u0115","u0116",
    "u0117","u0118","u0119","u011A","u011B","u011C","u011D","u011E","u011F","u0120","u0121",
    "u0122","u0123","u0124","u0125","u0126","u0127","u0128","u0129","u012A","u012B","u012C",
    "u012D","u012E","u012F","u0130","u0131","u0132","u0133","u0134","u0135","u0136","u0137",
    "u0138","u0139","u013A","u013B","u013C","u013D","u013E","u013F","u0140","u0141","u0142",
    "u0143","u0144","u0145","u0146","u0147","u0148","u0149","u014A","u014B","u014C","u014D",
    "u014E","u014F","u0150","u0151","u0152","u0153","u0154","u0155","u0156","u0157","u0158",
    "u0159","u015A","u015B","u015C","u015D","u015E","u015F","u0160","u0161","u0162","u0163",
    "u0164","u0165","u0166","u0167","u0168","u0169","u016A","u016B","u016C","u016D","u016E",
    "u016F","u0170","u0171","u0172","u0173","u0174","u0175","u0176","u0177","u0178","u0179",
    "u017A","u017B","u017C","u017D","u017E","u017F","u0180","u0181","u0182","u0183","u0184",
    "u0185","u0186","u0187","u0188","u0189","u018A","u018B","u018C","u018D","u018E","u018F",
    "u0190","u0191","u0192","u0193","u0194","u0195","u0196","u0197","u0198","u0199","u019A",
    "u019B","u019C","u019D","u019E","u019F","u01A0","u01A1","u01A2","u01A3","u01A4","u01A5",
    "u01A6","u01A7","u01A8","u01A9","u01AA","u01AB","u01AC","u01AD","u01AE","u01AF","u01B0",
    "u01B1","u01B2","u01B3","u01B4","u01B5","u01B6","u01B7","u01B8","u01B9","u01BA","u01BC",
    "u01BD","u01BE","u01BF","u01C4","u01C5","u01C6","u01C7","u01C8","u01C9","u01CA","u01CB",
    "u01CC","u01CD","u01CE","u01CF","u01D0","u01D1","u01D2","u01D3","u01D4","u01D5","u01D6",
    "u01D7","u01D8","u01D9","u01DA","u01DB","u01DC","u01DD","u01DE","u01DF","u01E0","u01E1",
    "u01E2","u01E3","u01E4","u01E5","u01E6","u01E7","u01E8","u01E9","u01EA","u01EB","u01EC",
    "u01ED","u01EE","u01EF","u01F0","u01F1","u01F2","u01F3","u01F4","u01F5","u01F6","u01F7",
    "u01F8","u01F9","u01FA","u01FB","u01FC","u01FD","u01FE","u01FF","u0200","u0201","u0202",
    "u0203","u0204","u0205","u0206","u0207","u0208","u0209","u020A","u020B","u020C","u020D",
    "u020E","u020F","u0210","u0211","u0212","u0213","u0214","u0215","u0216","u0217","u0218",
    "u0219","u021A","u021B","u021C","u021D","u021E","u021F","u0220","u0221","u0222","u0223",
    "u0224","u0225","u0226","u0227","u0228","u0229","u022A","u022B","u022C","u022D","u022E",
    "u022F","u0230","u0231","u0232","u0233","u0234","u0235","u0236","u0237","u0238","u0239",
    "u023A","u023B","u023C","u023D","u023E","u023F","u0240","u0241","u0242","u0243","u0244",
    "u0245","u0246","u0247","u0248","u0249","u024A","u024B","u024C","u024D","u024E","u024F",
    "u0250","u0251","u0252","u0253","u0254","u0255","u0256","u0257","u0258","u0259","u025A",
    "u025B","u025C","u025D","u025E","u025F","u0260","u0261","u0262","u0263","u0264","u0265",
    "u0266","u0267","u0268","u0269","u026A","u026B","u026C","u026D","u026E","u026F","u0270",
    "u0271","u0272","u0273","u0274","u0275","u0276","u0277","u0278","u0279","u027A","u027B",
    "u027C","u027D","u027E","u027F","u0280","u0281","u0282","u0283","u0284","u0285","u0286",
    "u0287","u0288","u0289","u028A","u028B","u028C","u028D","u028E","u028F","u0290","u0291",
    "u0292","u0293","u0296","u0297","u0298","u0299","u029A","u029B","u029C","u029D","u029E",
    "u029F","u02A0","u02A1","u02A2","u02A3","u02A4","u02A5","u02A6","u02A7","u02A8","u02A9",
    "u02AA","u02AB","u02AC","u02AD","u02AE","u02AF","u02B0","u02B1","u02B2","u02B3","u02B4",
    "u02B5","u02B6","u02B7","u02B8","u02C0","u02C1","u02E0","u02E1","u02E2","u02E3","u02E4",
    "u0345","u0370","u0371","u0372","u0373","u0376","u0377","u037A","u037B","u037C","u037D",
    "u037F","u0386","u0388","u0389","u038A","u038C","u038E","u038F","u0390","u0391","u0392",
    "u0393","u0394","u0395","u0396","u0397","u0398","u0399","u039A","u039B","u039C","u039D",
    "u039E","u039F","u03A0","u03A1","u03A3","u03A4","u03A5","u03A6","u03A7","u03A8","u03A9",
    "u03AA","u03AB","u03AC","u03AD","u03AE","u03AF","u03B0","u03B1","u03B2","u03B3","u03B4",
    "u03B5","u03B6","u03B7","u03B8","u03B9","u03BA","u03BB","u03BC","u03BD","u03BE","u03BF",
    "u03C0","u03C1","u03C2","u03C3","u03C4","u03C5","u03C6","u03C7","u03C8","u03C9","u03CA",
    "u03CB","u03CC","u03CD","u03CE","u03CF","u03D0","u03D1","u03D2","u03D3","u03D4","u03D5",
    "u03D6","u03D7","u03D8","u03D9","u03DA","u03DB","u03DC","u03DD","u03DE","u03DF","u03E0",
    "u03E1","u03E2","u03E3","u03E4","u03E5","u03E6","u03E7","u03E8","u03E9","u03EA","u03EB",
    "u03EC","u03ED","u03EE","u03EF","u03F0","u03F1","u03F2","u03F3","u03F4","u03F5","u03F7",
    "u03F8","u03F9","u03FA","u03FB","u03FC","u03FD","u03FE","u03FF","u0400","u0401","u0402",
    "u0403","u0404","u0405","u0406","u0407","u0408","u0409","u040A","u040B","u040C","u040D",
    "u040E","u040F","u0410","u0411","u0412","u0413","u0414","u0415","u0416","u0417","u0418",
    "u0419","u041A","u041B","u041C","u041D","u041E","u041F","u0420","u0421","u0422","u0423",
    "u0424","u0425","u0426","u0427","u0428","u0429","u042A","u042B","u042C","u042D","u042E",
    "u042F","u0430","u0431","u0432","u0433","u0434","u0435","u0436","u0437","u0438","u0439",
    "u043A","u043B","u043C","u043D","u043E","u043F","u0440","u0441","u0442","u0443","u0444",
    "u0445","u0446","u0447","u0448","u0449","u044A","u044B","u044C","u044D","u044E","u044F",
    "u0450","u0451","u0452","u0453","u0454","u0455","u0456","u0457","u0458","u0459","u045A",
    "u045B","u045C","u045D","u045E","u045F","u0460","u0461","u0462","u0463","u0464","u0465",
    "u0466","u0467","u0468","u0469","u046A","u046B","u046C","u046D","u046E","u046F","u0470",
    "u0471","u0472","u0473","u0474","u0475","u0476","u0477","u0478","u0479","u047A","u047B",
    "u047C","u047D","u047E","u047F","u0480","u0481","u048A","u048B","u048C","u048D","u048E",
    "u048F","u0490","u0491","u0492","u0493","u0494","u0495","u0496","u0497","u0498","u0499",
    "u049A","u049B","u049C","u049D","u049E","u049F","u04A0","u04A1","u04A2","u04A3","u04A4",
    "u04A5","u04A6","u04A7","u04A8","u04A9","u04AA","u04AB","u04AC","u04AD","u04AE","u04AF",
    "u04B0","u04B1","u04B2","u04B3","u04B4","u04B5","u04B6","u04B7","u04B8","u04B9","u04BA",
    "u04BB","u04BC","u04BD","u04BE","u04BF","u04C0","u04C1","u04C2","u04C3","u04C4","u04C5",
    "u04C6","u04C7","u04C8","u04C9","u04CA","u04CB","u04CC","u04CD","u04CE","u04CF","u04D0",
    "u04D1","u04D2","u04D3","u04D4","u04D5","u04D6","u04D7","u04D8","u04D9","u04DA","u04DB",
    "u04DC","u04DD","u04DE","u04DF","u04E0","u04E1","u04E2","u04E3","u04E4","u04E5","u04E6",
    "u04E7","u04E8","u04E9","u04EA","u04EB","u04EC","u04ED","u04EE","u04EF","u04F0","u04F1",
    "u04F2","u04F3","u04F4","u04F5","u04F6","u04F7","u04F8","u04F9","u04FA","u04FB","u04FC",
    "u04FD","u04FE","u04FF","u0500","u0501","u0502","u0503","u0504","u0505","u0506","u0507",
    "u0508","u0509","u050A","u050B","u050C","u050D","u050E","u050F","u0510","u0511","u0512",
    "u0513","u0514","u0515","u0516","u0517","u0518","u0519","u051A","u051B","u051C","u051D",
    "u051E","u051F","u0520","u0521","u0522","u0523","u0524","u0525","u0526","u0527","u0528",
    "u0529","u052A","u052B","u052C","u052D","u052E","u052F","u0531","u0532","u0533","u0534",
    "u0535","u0536","u0537","u0538","u0539","u053A","u053B","u053C","u053D","u053E","u053F",
    "u0540","u0541","u0542","u0543","u0544","u0545","u0546","u0547","u0548","u0549","u054A",
    "u054B","u054C","u054D","u054E","u054F","u0550","u0551","u0552","u0553","u0554","u0555",
    "u0556","u0560","u0561","u0562","u0563","u0564","u0565","u0566","u0567","u0568","u0569",
    "u056A","u056B","u056C","u056D","u056E","u056F","u0570","u0571","u0572","u0573","u0574",
    "u0575","u0576","u0577","u0578","u0579","u057A","u057B","u057C","u057D","u057E","u057F",
    "u0580","u0581","u0582","u0583","u0584","u0585","u0586","u0587","u0588","u10A0","u10A1",
    "u10A2","u10A3","u10A4","u10A5","u10A6","u10A7","u10A8","u10A9","u10AA","u10AB","u10AC",
    "u10AD","u10AE","u10AF","u10B0","u10B1","u10B2","u10B3","u10B4","u10B5","u10B6","u10B7",
    "u10B8","u10B9","u10BA","u10BB","u10BC","u10BD","u10BE","u10BF","u10C0","u10C1","u10C2",
    "u10C3","u10C4","u10C5","u10C7","u10CD","u10D0","u10D1","u10D2","u10D3","u10D4","u10D5",
    "u10D6","u10D7","u10D8","u10D9","u10DA","u10DB","u10DC","u10DD","u10DE","u10DF","u10E0",
    "u10E1","u10E2","u10E3","u10E4","u10E5","u10E6","u10E7","u10E8","u10E9","u10EA","u10EB",
    "u10EC","u10ED","u10EE","u10EF","u10F0","u10F1","u10F2","u10F3","u10F4","u10F5","u10F6",
    "u10F7","u10F8","u10F9","u10FA","u10FD","u10FE","u10FF","u13A0","u13A1","u13A2","u13A3",
    "u13A4","u13A5","u13A6","u13A7","u13A8","u13A9","u13AA","u13AB","u13AC","u13AD","u13AE",
    "u13AF","u13B0","u13B1","u13B2","u13B3","u13B4","u13B5","u13B6","u13B7","u13B8","u13B9",
    "u13BA","u13BB","u13BC","u13BD","u13BE","u13BF","u13C0","u13C1","u13C2","u13C3","u13C4",
    "u13C5","u13C6","u13C7","u13C8","u13C9","u13CA","u13CB","u13CC","u13CD","u13CE","u13CF",
    "u13D0","u13D1","u13D2","u13D3","u13D4","u13D5","u13D6","u13D7","u13D8","u13D9","u13DA",
    "u13DB","u13DC","u13DD","u13DE","u13DF","u13E0","u13E1","u13E2","u13E3","u13E4","u13E5",
    "u13E6","u13E7","u13E8","u13E9","u13EA","u13EB","u13EC","u13ED","u13EE","u13EF","u13F0",
    "u13F1","u13F2","u13F3","u13F4","u13F5","u13F8","u13F9","u13FA","u13FB","u13FC","u13FD",
    "u1C80","u1C81","u1C82","u1C83","u1C84","u1C85","u1C86","u1C87","u1C88","u1C89","u1C8A",
    "u1C90","u1C91","u1C92","u1C93","u1C94","u1C95","u1C96","u1C97","u1C98","u1C99","u1C9A",
    "u1C9B","u1C9C","u1C9D","u1C9E","u1C9F","u1CA0","u1CA1","u1CA2","u1CA3","u1CA4","u1CA5",
    "u1CA6","u1CA7","u1CA8","u1CA9","u1CAA","u1CAB","u1CAC","u1CAD","u1CAE","u1CAF","u1CB0",
    "u1CB1","u1CB2","u1CB3","u1CB4","u1CB5","u1CB6","u1CB7","u1CB8","u1CB9","u1CBA","u1CBD",
    "u1CBE","u1CBF","u1D00","u1D01","u1D02","u1D03","u1D04","u1D05","u1D06","u1D07","u1D08",
    "u1D09","u1D0A","u1D0B","u1D0C","u1D0D","u1D0E","u1D0F","u1D10","u1D11","u1D12","u1D13",
    "u1D14","u1D15","u1D16","u1D17","u1D18","u1D19","u1D1A","u1D1B","u1D1C","u1D1D","u1D1E",
    "u1D1F","u1D20","u1D21","u1D22","u1D23","u1D24","u1D25","u1D26","u1D27","u1D28","u1D29",
    "u1D2A","u1D2B","u1D2C","u1D2D","u1D2E","u1D2F","u1D30","u1D31","u1D32","u1D33","u1D34",
    "u1D35","u1D36","u1D37","u1D38","u1D39","u1D3A","u1D3B","u1D3C","u1D3D","u1D3E","u1D3F",
    "u1D40","u1D41","u1D42","u1D43","u1D44","u1D45","u1D46","u1D47","u1D48","u1D49","u1D4A",
    "u1D4B","u1D4C","u1D4D","u1D4E","u1D4F","u1D50","u1D51","u1D52","u1D53","u1D54","u1D55",
    "u1D56","u1D57","u1D58","u1D59","u1D5A","u1D5B","u1D5C","u1D5D","u1D5E","u1D5F","u1D60",
    "u1D61","u1D62","u1D63","u1D64","u1D65","u1D66","u1D67","u1D68","u1D69","u1D6A","u1D6B",
    "u1D6C","u1D6D","u1D6E","u1D6F","u1D70","u1D71","u1D72","u1D73","u1D74","u1D75","u1D76",
    "u1D77","u1D78","u1D79","u1D7A","u1D7B","u1D7C","u1D7D","u1D7E","u1D7F","u1D80","u1D81",
    "u1D82","u1D83","u1D84","u1D85","u1D86","u1D87","u1D88","u1D89","u1D8A","u1D8B","u1D8C",
    "u1D8D","u1D8E","u1D8F","u1D90","u1D91","u1D92","u1D93","u1D94","u1D95","u1D96","u1D97",
    "u1D98","u1D99","u1D9A","u1D9B","u1D9C","u1D9D","u1D9E","u1D9F","u1DA0","u1DA1","u1DA2",
    "u1DA3","u1DA4","u1DA5","u1DA6","u1DA7","u1DA8","u1DA9","u1DAA","u1DAB","u1DAC","u1DAD",
    "u1DAE","u1DAF","u1DB0","u1DB1","u1DB2","u1DB3","u1DB4","u1DB5","u1DB6","u1DB7","u1DB8",
    "u1DB9","u1DBA","u1DBB","u1DBC","u1DBD","u1DBE","u1DBF","u1E00","u1E01","u1E02","u1E03",
    "u1E04","u1E05","u1E06","u1E07","u1E08","u1E09","u1E0A","u1E0B","u1E0C","u1E0D","u1E0E",
    "u1E0F","u1E10","u1E11","u1E12","u1E13","u1E14","u1E15","u1E16","u1E17","u1E18","u1E19",
    "u1E1A","u1E1B","u1E1C","u1E1D","u1E1E","u1E1F","u1E20","u1E21","u1E22","u1E23","u1E24",
    "u1E25","u1E26","u1E27","u1E28","u1E29","u1E2A","u1E2B","u1E2C","u1E2D","u1E2E","u1E2F",
    "u1E30","u1E31","u1E32","u1E33","u1E34","u1E35","u1E36","u1E37","u1E38","u1E39","u1E3A",
    "u1E3B","u1E3C","u1E3D","u1E3E","u1E3F","u1E40","u1E41","u1E42","u1E43","u1E44","u1E45",
    "u1E46","u1E47","u1E48","u1E49","u1E4A","u1E4B","u1E4C","u1E4D","u1E4E","u1E4F","u1E50",
    "u1E51","u1E52","u1E53","u1E54","u1E55","u1E56","u1E57","u1E58","u1E59","u1E5A","u1E5B",
    "u1E5C","u1E5D","u1E5E","u1E5F","u1E60","u1E61","u1E62","u1E63","u1E64","u1E65","u1E66",
    "u1E67","u1E68","u1E69","u1E6A","u1E6B","u1E6C","u1E6D","u1E6E","u1E6F","u1E70","u1E71",
    "u1E72","u1E73","u1E74","u1E75","u1E76","u1E77","u1E78","u1E79","u1E7A","u1E7B","u1E7C",
    "u1E7D","u1E7E","u1E7F","u1E80","u1E81","u1E82","u1E83","u1E84","u1E85","u1E86","u1E87",
    "u1E88","u1E89","u1E8A","u1E8B","u1E8C","u1E8D","u1E8E","u1E8F","u1E90","u1E91","u1E92",
    "u1E93","u1E94","u1E95","u1E96","u1E97","u1E98","u1E99","u1E9A","u1E9B","u1E9C","u1E9D",
    "u1E9E","u1E9F","u1EA0","u1EA1","u1EA2","u1EA3","u1EA4","u1EA5","u1EA6","u1EA7","u1EA8",
    "u1EA9","u1EAA","u1EAB","u1EAC","u1EAD","u1EAE","u1EAF","u1EB0","u1EB1","u1EB2","u1EB3",
    "u1EB4","u1EB5","u1EB6","u1EB7","u1EB8","u1EB9","u1EBA","u1EBB","u1EBC","u1EBD","u1EBE",
    "u1EBF","u1EC0","u1EC1","u1EC2","u1EC3","u1EC4","u1EC5","u1EC6","u1EC7","u1EC8","u1EC9",
    "u1ECA","u1ECB","u1ECC","u1ECD","u1ECE","u1ECF","u1ED0","u1ED1","u1ED2","u1ED3","u1ED4",
    "u1ED5","u1ED6","u1ED7","u1ED8","u1ED9","u1EDA","u1EDB","u1EDC","u1EDD","u1EDE","u1EDF",
    "u1EE0","u1EE1","u1EE2","u1EE3","u1EE4","u1EE5","u1EE6","u1EE7","u1EE8","u1EE9","u1EEA",
    "u1EEB","u1EEC","u1EED","u1EEE","u1EEF","u1EF0","u1EF1","u1EF2","u1EF3","u1EF4","u1EF5",
    "u1EF6","u1EF7","u1EF8","u1EF9","u1EFA","u1EFB","u1EFC","u1EFD","u1EFE","u1EFF","u1F00",
    "u1F01","u1F02","u1F03","u1F04","u1F05","u1F06","u1F07","u1F08","u1F09","u1F0A","u1F0B",
    "u1F0C","u1F0D","u1F0E","u1F0F","u1F10","u1F11","u1F12","u1F13","u1F14","u1F15","u1F18",
    "u1F19","u1F1A","u1F1B","u1F1C","u1F1D","u1F20","u1F21","u1F22","u1F23","u1F24","u1F25",
    "u1F26","u1F27","u1F28","u1F29","u1F2A","u1F2B","u1F2C","u1F2D","u1F2E","u1F2F","u1F30",
    "u1F31","u1F32","u1F33","u1F34","u1F35","u1F36","u1F37","u1F38","u1F39","u1F3A","u1F3B",
    "u1F3C","u1F3D","u1F3E","u1F3F","u1F40","u1F41","u1F42","u1F43","u1F44","u1F45","u1F48",
    "u1F49","u1F4A","u1F4B","u1F4C","u1F4D","u1F50","u1F51","u1F52","u1F53","u1F54","u1F55",
    "u1F56","u1F57","u1F59","u1F5B","u1F5D","u1F5F","u1F60","u1F61","u1F62","u1F63","u1F64",
    "u1F65","u1F66","u1F67","u1F68","u1F69","u1F6A","u1F6B","u1F6C","u1F6D","u1F6E","u1F6F",
    "u1F70","u1F71","u1F72","u1F73","u1F74","u1F75","u1F76","u1F77","u1F78","u1F79","u1F7A",
    "u1F7B","u1F7C","u1F7D","u1F80","u1F81","u1F82","u1F83","u1F84","u1F85","u1F86","u1F87",
    "u1F88","u1F89","u1F8A","u1F8B","u1F8C","u1F8D","u1F8E","u1F8F","u1F90","u1F91","u1F92",
    "u1F93","u1F94","u1F95","u1F96","u1F97","u1F98","u1F99","u1F9A","u1F9B","u1F9C","u1F9D",
    "u1F9E","u1F9F","u1FA0","u1FA1","u1FA2","u1FA3","u1FA4","u1FA5","u1FA6","u1FA7","u1FA8",
    "u1FA9","u1FAA","u1FAB","u1FAC","u1FAD","u1FAE","u1FAF","u1FB0","u1FB1","u1FB2","u1FB3",
    "u1FB4","u1FB6","u1FB7","u1FB8","u1FB9","u1FBA","u1FBB","u1FBC","u1FBE","u1FC2","u1FC3",
    "u1FC4","u1FC6","u1FC7","u1FC8","u1FC9","u1FCA","u1FCB","u1FCC","u1FD0","u1FD1","u1FD2",
    "u1FD3","u1FD6","u1FD7","u1FD8","u1FD9","u1FDA","u1FDB","u1FE0","u1FE1","u1FE2","u1FE3",
    "u1FE4","u1FE5","u1FE6","u1FE7","u1FE8","u1FE9","u1FEA","u1FEB","u1FEC","u1FF2","u1FF3",
    "u1FF4","u1FF6","u1FF7","u1FF8","u1FF9","u1FFA","u1FFB","u1FFC","u2071","u207F","u2090",
    "u2091","u2092","u2093","u2094","u2095","u2096","u2097","u2098","u2099","u209A","u209B",
    "u209C","u2102","u2107","u210A","u210B","u210C","u210D","u210E","u210F","u2110","u2111",
    "u2112","u2113","u2115","u2119","u211A","u211B","u211C","u211D","u2124","u2126","u2128",
    "u212A","u212B","u212C","u212D","u212F","u2130","u2131","u2132","u2133","u2134","u2139",
    "u213C","u213D","u213E","u213F","u2145","u2146","u2147","u2148","u2149","u214E","u2160",
    "u2161","u2162","u2163","u2164","u2165","u2166","u2167","u2168","u2169","u216A","u216B",
    "u216C","u216D","u216E","u216F","u2170","u2171","u2172","u2173","u2174","u2175","u2176",
    "u2177","u2178","u2179","u217A","u217B","u217C","u217D","u217E","u217F","u2183","u2184",
    "u24B6","u24B7","u24B8","u24B9","u24BA","u24BB","u24BC","u24BD","u24BE","u24BF","u24C0",
    "u24C1","u24C2","u24C3","u24C4","u24C5","u24C6","u24C7","u24C8","u24C9","u24CA","u24CB",
    "u24CC","u24CD","u24CE","u24CF","u24D0","u24D1","u24D2","u24D3","u24D4","u24D5","u24D6",
    "u24D7","u24D8","u24D9","u24DA","u24DB","u24DC","u24DD","u24DE","u24DF","u24E0","u24E1",
    "u24E2","u24E3","u24E4","u24E5","u24E6","u24E7","u24E8","u24E9","u2C00","u2C01","u2C02",
    "u2C03","u2C04","u2C05","u2C06","u2C07","u2C08","u2C09","u2C0A","u2C0B","u2C0C","u2C0D",
    "u2C0E","u2C0F","u2C10","u2C11","u2C12","u2C13","u2C14","u2C15","u2C16","u2C17","u2C18",
    "u2C19","u2C1A","u2C1B","u2C1C","u2C1D","u2C1E","u2C1F","u2C20","u2C21","u2C22","u2C23",
    "u2C24","u2C25","u2C26","u2C27","u2C28","u2C29","u2C2A","u2C2B","u2C2C","u2C2D","u2C2E",
    "u2C2F","u2C30","u2C31","u2C32","u2C33","u2C34","u2C35","u2C36","u2C37","u2C38","u2C39",
    "u2C3A","u2C3B","u2C3C","u2C3D","u2C3E","u2C3F","u2C40","u2C41","u2C42","u2C43","u2C44",
    "u2C45","u2C46","u2C47","u2C48","u2C49","u2C4A","u2C4B","u2C4C","u2C4D","u2C4E","u2C4F",
    "u2C50","u2C51","u2C52","u2C53","u2C54","u2C55","u2C56","u2C57","u2C58","u2C59","u2C5A",
    "u2C5B","u2C5C","u2C5D","u2C5E","u2C5F","u2C60","u2C61","u2C62","u2C63","u2C64","u2C65",
    "u2C66","u2C67","u2C68","u2C69","u2C6A","u2C6B","u2C6C","u2C6D","u2C6E","u2C6F","u2C70",
    "u2C71","u2C72","u2C73","u2C74","u2C75","u2C76","u2C77","u2C78","u2C79","u2C7A","u2C7B",
    "u2C7C","u2C7D","u2C7E","u2C7F","u2C80","u2C81","u2C82","u2C83","u2C84","u2C85","u2C86",
    "u2C87","u2C88","u2C89","u2C8A","u2C8B","u2C8C","u2C8D","u2C8E","u2C8F","u2C90","u2C91",
    "u2C92","u2C93","u2C94","u2C95","u2C96","u2C97","u2C98","u2C99","u2C9A","u2C9B","u2C9C",
    "u2C9D","u2C9E","u2C9F","u2CA0","u2CA1","u2CA2","u2CA3","u2CA4","u2CA5","u2CA6","u2CA7",
    "u2CA8","u2CA9","u2CAA","u2CAB","u2CAC","u2CAD","u2CAE","u2CAF","u2CB0","u2CB1","u2CB2",
    "u2CB3","u2CB4","u2CB5","u2CB6","u2CB7","u2CB8","u2CB9","u2CBA","u2CBB","u2CBC","u2CBD",
    "u2CBE","u2CBF","u2CC0","u2CC1","u2CC2","u2CC3","u2CC4","u2CC5","u2CC6","u2CC7","u2CC8",
    "u2CC9","u2CCA","u2CCB","u2CCC","u2CCD","u2CCE","u2CCF","u2CD0","u2CD1","u2CD2","u2CD3",
    "u2CD4","u2CD5","u2CD6","u2CD7","u2CD8","u2CD9","u2CDA","u2CDB","u2CDC","u2CDD","u2CDE",
    "u2CDF","u2CE0","u2CE1","u2CE2","u2CE3","u2CE4","u2CEB","u2CEC","u2CED","u2CEE","u2CF2",
    "u2CF3","u2D00","u2D01","u2D02","u2D03","u2D04","u2D05","u2D06","u2D07","u2D08","u2D09",
    "u2D0A","u2D0B","u2D0C","u2D0D","u2D0E","u2D0F","u2D10","u2D11","u2D12","u2D13","u2D14",
    "u2D15","u2D16","u2D17","u2D18","u2D19","u2D1A","u2D1B","u2D1C","u2D1D","u2D1E","u2D1F",
    "u2D20","u2D21","u2D22","u2D23","u2D24","u2D25","u2D27","u2D2D","uA640","uA641","uA642",
    "uA643","uA644","uA645","uA646","uA647","uA648","uA649","uA64A","uA64B","uA64C","uA64D",
    "uA64E","uA64F","uA650","uA651","uA652","uA653","uA654","uA655","uA656","uA657","uA658",
    "uA659","uA65A","uA65B","uA65C","uA65D","uA65E","uA65F","uA660","uA661","uA662","uA663",
    "uA664","uA665","uA666","uA667","uA668","uA669","uA66A","uA66B","uA66C","uA66D","uA680",
    "uA681","uA682","uA683","uA684","uA685","uA686","uA687","uA688","uA689","uA68A","uA68B",
    "uA68C","uA68D","uA68E","uA68F","uA690","uA691","uA692","uA693","uA694","uA695","uA696",
    "uA697","uA698","uA699","uA69A","uA69B","uA69C","uA69D","uA722","uA723","uA724","uA725",
    "uA726","uA727","uA728","uA729","uA72A","uA72B","uA72C","uA72D","uA72E","uA72F","uA730",
    "uA731","uA732","uA733","uA734","uA735","uA736","uA737","uA738","uA739","uA73A","uA73B",
    "uA73C","uA73D","uA73E","uA73F","uA740","uA741","uA742","uA743","uA744","uA745","uA746",
    "uA747","uA748","uA749","uA74A","uA74B","uA74C","uA74D","uA74E","uA74F","uA750","uA751",
    "uA752","uA753","uA754","uA755","uA756","uA757","uA758","uA759","uA75A","uA75B","uA75C",
    "uA75D","uA75E","uA75F","uA760","uA761","uA762","uA763","uA764","uA765","uA766","uA767",
    "uA768","uA769","uA76A","uA76B","uA76C","uA76D","uA76E","uA76F","uA770","uA771","uA772",
    "uA773","uA774","uA775","uA776","uA777","uA778","uA779","uA77A","uA77B","uA77C","uA77D",
    "uA77E","uA77F","uA780","uA781","uA782","uA783","uA784","uA785","uA786","uA787","uA78B",
    "uA78C","uA78D","uA78E","uA790","uA791","uA792","uA793","uA794","uA795","uA796","uA797",
    "uA798","uA799","uA79A","uA79B","uA79C","uA79D","uA79E","uA79F","uA7A0","uA7A1","uA7A2",
    "uA7A3","uA7A4","uA7A5","uA7A6","uA7A7","uA7A8","uA7A9","uA7AA","uA7AB","uA7AC","uA7AD",
    "uA7AE","uA7AF","uA7B0","uA7B1","uA7B2","uA7B3","uA7B4","uA7B5","uA7B6","uA7B7","uA7B8",
    "uA7B9","uA7BA","uA7BB","uA7BC","uA7BD","uA7BE","uA7BF","uA7C0","uA7C1","uA7C2","uA7C3",
    "uA7C4","uA7C5","uA7C6","uA7C7","uA7C8","uA7C9","uA7CA","uA7CB","uA7CC","uA7CD","uA7CE",
    "uA7CF","uA7D0","uA7D1","uA7D2","uA7D3","uA7D4","uA7D5","uA7D6","uA7D7","uA7D8","uA7D9",
    "uA7DA","uA7DB","uA7DC","uA7F5","uA7F6","uA7F8","uA7F9","uA7FA","uAB30","uAB31","uAB32",
    "uAB33","uAB34","uAB35","uAB36","uAB37","uAB38","uAB39","uAB3A","uAB3B","uAB3C","uAB3D",
    "uAB3E","uAB3F","uAB40","uAB41","uAB42","uAB43","uAB44","uAB45","uAB46","uAB47","uAB48",
    "uAB49","uAB4A","uAB4B","uAB4C","uAB4D","uAB4E","uAB4F","uAB50","uAB51","uAB52","uAB53",
    "uAB54","uAB55","uAB56","uAB57","uAB58","uAB59","uAB5A","uAB5C","uAB5D","uAB5E","uAB5F",
    "uAB60","uAB61","uAB62","uAB63","uAB64","uAB65","uAB66","uAB67","uAB68","uAB70","uAB71",
    "uAB72","uAB73","uAB74","uAB75","uAB76","uAB77","uAB78","uAB79","uAB7A","uAB7B","uAB7C",
    "uAB7D","uAB7E","uAB7F","uAB80","uAB81","uAB82","uAB83","uAB84","uAB85","uAB86","uAB87",
    "uAB88","uAB89","uAB8A","uAB8B","uAB8C","uAB8D","uAB8E","uAB8F","uAB90","uAB91","uAB92",
    "uAB93","uAB94","uAB95","uAB96","uAB97","uAB98","uAB99","uAB9A","uAB9B","uAB9C","uAB9D",
    "uAB9E","uAB9F","uABA0","uABA1","uABA2","uABA3","uABA4","uABA5","uABA6","uABA7","uABA8",
    "uABA9","uABAA","uABAB","uABAC","uABAD","uABAE","uABAF","uABB0","uABB1","uABB2","uABB3",
    "uABB4","uABB5","uABB6","uABB7","uABB8","uABB9","uABBA","uABBB","uABBC","uABBD","uABBE",
    "uABBF","uFB00","uFB01","uFB02","uFB03","uFB04","uFB05","uFB06","uFB13","uFB14","uFB15",
    "uFB16","uFB17","uFF21","uFF22","uFF23","uFF24","uFF25","uFF26","uFF27","uFF28","uFF29",
    "uFF2A","uFF2B","uFF2C","uFF2D","uFF2E","uFF2F","uFF30","uFF31","uFF32","uFF33","uFF34",
    "uFF35","uFF36","uFF37","uFF38","uFF39","uFF3A","uFF41","uFF42","uFF43","uFF44","uFF45",
    "uFF46","uFF47","uFF48","uFF49","uFF4A","uFF4B","uFF4C","uFF4D","uFF4E","uFF4F","uFF50",
    "uFF51","uFF52","uFF53","uFF54","uFF55","uFF56","uFF57","uFF58","uFF59","uFF5A" }

\* the characters with the Unicode property Case_Ignorable
CaseIgnorableChars == {
    "'",".",":","^","u0060","u00A8","u00AD","u00AF","u00B4","u00B7","u00B8","u02B0","u02B1",
    "u02B2","u02B3","u02B4","u02B5","u02B6","u02B7","u02B8","u02B9","u02BA","u02BB","u02BC",
    "u02BD","u02BE","u02BF","u02C0","u02C1","u02C2","u02C3","u02C4","u02C5","u02C6","u02C7",
    "u02C8","u02C9","u02CA","u02CB","u02CC","u02CD","u02CE","u02CF","u02D0","u02D1","u02D2",
    "u02D3","u02D4","u02D5","u02D6","u02D7","u02D8","u02D9","u02DA","u02DB","u02DC","u02DD",
    "u02DE","u02DF","u02E0","u02E1","u02E2","u02E3","u02E4","u02E5","u02E6","u02E7","u02E8",
    "u02E9","u02EA","u02EB","u02EC","u02ED","u02EE","u02EF","u02F0","u02F1","u02F2","u02F3",
    "u02F4","u02F5","u02F6","u02F7","u02F8","u02F9","u02FA","u02FB","u02FC","u02FD","u02FE",
    "u02FF","u0300","u0301","u0302","u0303","u0304","u0305","u0306","u0307","u0308","u0309",
    "u030A","u030B","u030C","u030D","u030E","u030F","u0310","u0311","u0312","u0313","u0314",
    "u0315","u0316","u0317","u0318","u0319","u031A","u031B","u031C","u031D","u031E","u031F",
    "u0320","u0321","u0322","u0323","u0324","u0325","u0326","u0327","u0328","u0329","u032A",
    "u032B","u032C","u032D","u032E","u032F","u0330","u0331","u0332","u0333","u0334","u0335",
    "u0336","u0337","u0338","u0339","u033A","u033B","u033C","u033D","u033E","u033F","u0340",
    "u0341","u0342","u0343","u0344","u0345","u0346","u0347","u0348","u0349","u034A","u034B",
    "u034C","u034D","u034E","u034F","u0350","u0351","u0352","u0353","u0354","u0355","u0356",
    "u0357","u0358","u0359","u035A","u035B","u035C","u035D","u035E","u035F","u0360","u0361",
    "u0362","u0363","u0364","u0365","u0366","u0367","u0368","u0369","u036A","u036B","u036C",
    "u036D","u036E","u036F","u0374","u0375","u037A","u0384","u0385","u0387","u0483","u0484",
    "u0485","u0486","u0487","u0488","u0489","u0559","u055F","u0591","u0592","u0593","u0594",
    "u0595","u0596","u0597","u0598","u0599","u059A","u059B","u059C","u059D","u059E","u059F",
    "u05A0","u05A1","u05A2","u05A3","u05A4","u05A5","u05A6","u05A7","u05A8","u05A9","u05AA",
    "u05AB","u05AC","u05AD","u05AE","u05AF","u05B0","u05B1","u05B2","u05B3","u05B4","u05B5",
    "u05B6","u05B7","u05B8","u05B9","u05BA","u05BB","u05BC","u05BD","u05BF","u05C1","u05C2",
    "u05C4","u05C5","u05C7","u05F4","u0600","u0601","u0602","u0603","u0604","u0605","u0610",
    "u0611","u0612","u0613","u0614","u0615","u0616","u0617","u0618","u0619","u061A","u061C",
    "u0640","u064B","u064C","u064D","u064E","u064F","u0650","u0651","u0652","u0653","u0654",
    "u0655","u0656","u0657","u0658","u0659","u065A","u065B","u065C","u065D","u065E","u065F",
    "u0670","u06D6","u06D7","u06D8","u06D9","u06DA","u06DB","u06DC","u06DD","u06DF","u06E0",
    "u06E1","u06E2","u06E3","u06E4","u06E5","u06E6","u06E7","u06E8","u06EA","u06EB","u06EC",
    "u06ED","u070F","u0711","u0730","u0731","u0732","u0733","u0734","u0735","u0736","u0737",
    "u0738","u0739","u073A","u073B","u073C","u073D","u073E","u073F","u0740","u0741","u0742",
    "u0743","u0744","u0745","u0746","u0747","u0748","u0749","u074A","u07A6","u07A7","u07A8",
    "u07A9","u07AA","u07AB","u07AC","u07AD","u07AE","u07AF","u07B0","u07EB","u07EC","u07ED",
    "u07EE","u07EF","u07F0","u07F1","u07F2","u07F3","u07F4","u07F5","u07FA","u07FD","u0816",
    "u0817","u0818","u0819","u081A","u081B","u081C","u081D","u081E","u081F","u0820","u0821",
    "u0822","u0823","u0824","u0825","u0826","u0827","u0828","u0829","u082A","u082B","u082C",
    "u082D","u0859","u085A","u085B","u0888","u0890","u0891","u0897","u0898","u0899","u089A",
    "u089B","u089C","u089D","u089E","u089F","u08C9","u08CA","u08CB","u08CC","u08CD","u08CE",
    "u08CF","u08D0","u08D1","u08D2","u08D3","u08D4","u08D5","u08D6","u08D7","u08D8","u08D9",
    "u08DA","u08DB","u08DC","u08DD","u08DE","u08DF","u08E0","u08E1","u08E2","u08E3","u08E4",
    "u08E5","u08E6","u08E7","u08E8","u08E9","u08EA","u08EB","u08EC","u08ED","u08EE","u08EF",
    "u08F0","u08F1","u08F2","u08F3","u08F4","u08F5","u08F6","u08F7","u08F8","u08F9","u08FA",
    "u08FB","u08FC","u08FD","u08FE","u08FF","u0900","u0901","u0902","u093A","u093C","u0941",
    "u0942","u0943","u0944","u0945","u0946","u0947","u0948","u094D","u0951","u0952","u0953",
    "u0954","u0955","u0956","u0957","u0962","u0963","u0971","u0981","u09BC","u09C1","u09C2",
    "u09C3","u09C4","u09CD","u09E2","u09E3","u09FE","u0A01","u0A02","u0A3C","u0A41","u0A42",
    "u0A47","u0A48","u0A4B","u0A4C","u0A4D","u0A51","u0A70","u0A71","u0A75","u0A81","u0A82",
    "u0ABC","u0AC1","u0AC2","u0AC3","u0AC4","u0AC5","u0AC7","u0AC8","u0ACD","u0AE2","u0AE3",
    "u0AFA","u0AFB","u0AFC","u0AFD","u0AFE","u0AFF","u0B01","u0B3C","u0B3F","u0B41","u0B42",
    "u0B43","u0B44","u0B4D","u0B55","u0B56","u0B62","u0B63","u0B82","u0BC0","u0BCD","u0C00",
    "u0C04","u0C3C","u0C3E","u0C3F","u0C40","u0C46","u0C47","u0C48","u0C4A","u0C4B","u0C4C",
    "u0C4D","u0C55","u0C56","u0C62","u0C63","u0C81","u0CBC","u0CBF","u0CC6","u0CCC","u0CCD",
    "u0CE2","u0CE3","u0D00","u0D01","u0D3B","u0D3C","u0D41","u0D42","u0D43","u0D44","u0D4D",
    "u0D62","u0D63","u0D81","u0DCA","u0DD2","u0DD3","u0DD4","u0DD6","u0E31","u0E34","u0E35",
    "u0E36","u0E37","u0E38","u0E39","u0E3A","u0E46","u0E47","u0E48","u0E49","u0E4A","u0E4B",
    "u0E4C","u0E4D","u0E4E","u0EB1","u0EB4","u0EB5","u0EB6","u0EB7","u0EB8","u0EB9","u0EBA",
    "u0EBB","u0EBC","u0EC6","u0EC8","u0EC9","u0ECA","u0ECB","u0ECC","u0ECD","u0ECE","u0F18",
    "u0F19","u0F35","u0F37","u0F39","u0F71","u0F72","u0F73","u0F74","u0F75","u0F76","u0F77",
    "u0F78","u0F79","u0F7A","u0F7B","u0F7C","u0F7D","u0F7E","u0F80","u0F81","u0F82","u0F83",
    "u0F84","u0F86","u0F87","u0F8D","u0F8E","u0F8F","u0F90","u0F91","u0F92","u0F93","u0F94",
    "u0F95","u0F96","u0F97","u0F99","u0F9A","u0F9B","u0F9C","u0F9D","u0F9E","u0F9F","u0FA0",
    "u0FA1","u0FA2","u0FA3","u0FA4","u0FA5","u0FA6","u0FA7","u0FA8","u0FA9","u0FAA","u0FAB",
    "u0FAC","u0FAD","u0FAE","u0FAF","u0FB0","u0FB1","u0FB2","u0FB3","u0FB4","u0FB5","u0FB6",
    "u0FB7","u0FB8","u0FB9","u0FBA","u0FBB","u0FBC","u0FC6","u102D","u102E","u102F","u1030",
    "u1032","u1033","u1034","u1035","u1036","u1037","u1039","u103A","u103D","u103E","u1058",
    "u1059","u105E","u105F","u1060","u1071","u1072","u1073","u1074","u1082","u1085","u1086",
    "u108D","u109D","u10FC","u135D","u135E","u135F","u1712","u1713","u1714","u1732","u1733",
    "u1752","u1753","u1772","u1773","u17B4","u17B5","u17B7","u17B8","u17B9","u17BA","u17BB",
    "u17BC","u17BD","u17C6","u17C9","u17CA","u17CB","u17CC","u17CD","u17CE","u17CF","u17D0",
    "u17D1","u17D2","u17D3","u17D7","u17DD","u180B","u180C","u180D","u180E","u180F","u1843",
    "u1885","u1886","u18A9","u1920","u1921","u1922","u1927","u1928","u1932","u1939","u193A",
    "u193B","u1A17","u1A18","u1A1B","u1A56","u1A58","u1A59","u1A5A","u1A5B","u1A5C","u1A5D",
    "u1A5E","u1A60","u1A62","u1A65","u1A66","u1A67","u1A68","u1A69","u1A6A","u1A6B","u1A6C",
    "u1A73","u1A74","u1A75","u1A76","u1A77","u1A78","u1A79","u1A7A","u1A7B","u1A7C","u1A7F",
    "u1AA7","u1AB0","u1AB1","u1AB2","u1AB3","u1AB4","u1AB5","u1AB6","u1AB7","u1AB8","u1AB9",
    "u1ABA","u1ABB","u1ABC","u1ABD","u1ABE","u1ABF","u1AC0","u1AC1","u1AC2","u1AC3","u1AC4",
    "u1AC5","u1AC6","u1AC7","u1AC8","u1AC9","u1ACA","u1ACB","u1ACC","u1ACD","u1ACE","u1ACF",
    "u1AD0","u1AD1","u1AD2","u1AD3","u1AD4","u1AD5","u1AD6","u1AD7","u1AD8","u1AD9","u1ADA",
    "u1ADB","u1ADC","u1ADD","u1AE0","u1AE1","u1AE2","u1AE3","u1AE4","u1AE5","u1AE6","u1AE7",
    "u1AE8","u1AE9","u1AEA","u1AEB","u1B00","u1B01","u1B02","u1B03","u1B34","u1B36","u1B37",
    "u1B38","u1B39","u1B3A","u1B3C","u1B42","u1B6B","u1B6C","u1B6D","u1B6E","u1B6F","u1B70",
    "u1B71","u1B72","u1B73","u1B80","u1B81","u1BA2","u1BA3","u1BA4","u1BA5","u1BA8","u1BA9",
    "u1BAB","u1BAC","u1BAD","u1BE6","u1BE8","u1BE9","u1BED","u1BEF","u1BF0","u1BF1","u1C2C",
    "u1C2D","u1C2E","u1C2F","u1C30","u1C31","u1C32","u1C33","u1C36","u1C37","u1C78","u1C79",
    "u1C7A","u1C7B","u1C7C","u1C7D","u1CD0","u1CD1","u1CD2","u1CD4","u1CD5","u1CD6","u1CD7",
    "u1CD8","u1CD9","u1CDA","u1CDB","u1CDC","u1CDD","u1CDE","u1CDF","u1CE0","u1CE2","u1CE3",
    "u1CE4","u1CE5","u1CE6","u1CE7","u1CE8","u1CED","u1CF4","u1CF8","u1CF9","u1D2C","u1D2D",
    "u1D2E","u1D2F","u1D30","u1D31","u1D32","u1D33","u1D34","u1D35","u1D36","u1D37","u1D38",
    "u1D39","u1D3A","u1D3B","u1D3C","u1D3D","u1D3E","u1D3F","u1D40","u1D41","u1D42","u1D43",
    "u1D44","u1D45","u1D46","u1D47","u1D48","u1D49","u1D4A","u1D4B","u1D4C","u1D4D","u1D4E",
    "u1D4F","u1D50","u1D51","u1D52","u1D53","u1D54","u1D55","u1D56","u1D57","u1D58","u1D59",
    "u1D5A","u1D5B","u1D5C","u1D5D","u1D5E","u1D5F","u1D60","u1D61","u1D62","u1D63","u1D64",
    "u1D65","u1D66","u1D67","u1D68","u1D69","u1D6A","u1D78","u1D9B","u1D9C","u1D9D","u1D9E",
    "u1D9F","u1DA0","u1DA1","u1DA2","u1DA3","u1DA4","u1DA5","u1DA6","u1DA7","u1DA8","u1DA9",
    "u1DAA","u1DAB","u1DAC","u1DAD","u1DAE","u1DAF","u1DB0","u1DB1","u1DB2","u1DB3","u1DB4",
    "u1DB5","u1DB6","u1DB7","u1DB8","u1DB9","u1DBA","u1DBB","u1DBC","u1DBD","u1DBE","u1DBF",
    "u1DC0","u1DC1","u1DC2","u1DC3","u1DC4","u1DC5","u1DC6","u1DC7","u1DC8","u1DC9","u1DCA",
    "u1DCB","u1DCC","u1DCD","u1DCE","u1DCF","u1DD0","u1DD1","u1DD2","u1DD3","u1DD4","u1DD5",
    "u1DD6","u1DD7","u1DD8","u1DD9","u1DDA","u1DDB","u1DDC","u1DDD","u1DDE","u1DDF","u1DE0",
    "u1DE1","u1DE2","u1DE3","u1DE4","u1DE5","u1DE6","u1DE7","u1DE8","u1DE9","u1DEA","u1DEB",
    "u1DEC","u1DED","u1DEE","u1DEF","u1DF0","u1DF1","u1DF2","u1DF3","u1DF4","u1DF5","u1DF6",
    "u1DF7","u1DF8","u1DF9","u1DFA","u1DFB","u1DFC","u1DFD","u1DFE","u1DFF","u1FBD","u1FBF",
    "u1FC0","u1FC1","u1FCD","u1FCE","u1FCF","u1FDD","u1FDE","u1FDF","u1FED","u1FEE","u1FEF",
    "u1FFD","u1FFE","u200B","u200C","u200D","u200E","u200F","u2018","u2019","u2024","u2027",
    "u202A","u202B","u202C","u202D","u202E","u2060","u2061","u2062","u2063","u2064","u2066",
    "u2067","u2068","u2069","u206A","u206B","u206C","u206D","u206E","u206F","u2071","u207F",
    "u2090","u2091","u2092","u2093","u2094","u2095","u2096","u2097","u2098","u2099","u209A",
    "u209B","u209C","u20D0","u20D1","u20D2","u20D3","u20D4","u20D5","u20D6","u20D7","u20D8",
    "u20D9","u20DA","u20DB","u20DC","u20DD","u20DE","u20DF","u20E0","u20E1","u20E2","u20E3",
    "u20E4","u20E5","u20E6","u20E7","u20E8","u20E9","u20EA","u20EB","u20EC","u20ED","u20EE",
    "u20EF","u20F0","u2C7C","u2C7D","u2CEF","u2CF0","u2CF1","u2D6F","u2D7F","u2DE0","u2DE1",
    "u2DE2","u2DE3","u2DE4","u2DE5","u2DE6","u2DE7","u2DE8","u2DE9","u2DEA","u2DEB","u2DEC",
    "u2DED","u2DEE","u2DEF","u2DF0","u2DF1","u2DF2","u2DF3","u2DF4","u2DF5","u2DF6","u2DF7",
    "u2DF8","u2DF9","u2DFA","u2DFB","u2DFC","u2DFD","u2DFE","u2DFF","u2E2F","u3005","u302A",
    "u302B","u302C","u302D","u3031","u3032","u3033","u3034","u3035","u303B","u3099","u309A",
    "u309B","u309C","u309D","u309E","u30FC","u30FD","u30FE","uA015","uA4F8","uA4F9","uA4FA",
    "uA4FB","uA4FC","uA4FD","uA60C","uA66F","uA670","uA671","uA672","uA674","uA675","uA676",
    "uA677","uA678","uA679","uA67A","uA67B","uA67C","uA67D","uA67F","uA69C","uA69D","uA69E",
    "uA69F","uA6F0","uA6F1","uA700","uA701","uA702","uA703","uA704","uA705","uA706","uA707",
    "uA708","uA709","uA70A","uA70B","uA70C","uA70D","uA70E","uA70F","uA710","uA711","uA712",
    "uA713","uA714","uA715","uA716","uA717","uA718","uA719","uA71A","uA71B","uA71C","uA71D",
    "uA71E","uA71F","uA720","uA721","uA770","uA788","uA789","uA78A","uA7F1","uA7F2","uA7F3",
    "uA7F4","uA7F8","uA7F9","uA802","uA806","uA80B","uA825","uA826","uA82C","uA8C4","uA8C5",
    "uA8E0","uA8E1","uA8E2","uA8E3","uA8E4","uA8E5","uA8E6","uA8E7","uA8E8","uA8E9","uA8EA",
    "uA8EB","uA8EC","uA8ED","uA8EE","uA8EF","uA8F0","uA8F1","uA8FF","uA926","uA927","uA928",
    "uA929","uA92A","uA92B","uA92C","uA92D","uA947","uA948","uA949","uA94A","uA94B","uA94C",
    "uA94D","uA94E","uA94F","uA950","uA951","uA980","uA981","uA982","uA9B3","uA9B6","uA9B7",
    "uA9B8","uA9B9","uA9BC","uA9BD","uA9CF","uA9E5","uA9E6","uAA29","uAA2A","uAA2B","uAA2C",
    "uAA2D","uAA2E","uAA31","uAA32","uAA35","uAA36","uAA43","uAA4C","uAA70","uAA7C","uAAB0",
    "uAAB2","uAAB3","uAAB4","uAAB7","uAAB8","uAABE","uAABF","uAAC1","uAADD","uAAEC","uAAED",
    "uAAF3","uAAF4","uAAF6","uAB5B","uAB5C","uAB5D","uAB5E","uAB5F","uAB69","uAB6A","uAB6B",
    "uABE5","uABE8","uABED","uFB1E","uFBB2","uFBB3","uFBB4","uFBB5","uFBB6","uFBB7","uFBB8",
    "uFBB9","uFBBA","uFBBB","uFBBC","uFBBD","uFBBE","uFBBF","uFBC0","uFBC1","uFBC2","uFE00",
    "uFE01","uFE02","uFE03","uFE04","uFE05","uFE06","uFE07","uFE08","uFE09","uFE0A","uFE0B",
    "uFE0C","uFE0D","uFE0E","uFE0F","uFE13","uFE20","uFE21","uFE22","uFE23","uFE24","uFE25",
    "uFE26","uFE27","uFE28","uFE29","uFE2A","uFE2B","uFE2C","uFE2D","uFE2E","uFE2F","uFE52",
    "uFE55","uFEFF","uFF07","uFF0E","uFF1A","uFF3E","uFF40","uFF70","uFF9E","uFF9F","uFFE3",
    "uFFF9","uFFFA","uFFFB" }

\* the code units U+D800..U+DBFF and U+DC00..U+DFFF, in order: a high
\* surrogate followed by a low one is one character of U+10000..U+10FFFF
HighSurrogates == <<
    "uD800","uD801","uD802","uD803","uD804","uD805","uD806","uD807","uD808","uD809","uD80A",
    "uD80B","uD80C","uD80D","uD80E","uD80F","uD810","uD811","uD812","uD813","uD814","uD815",
    "uD816","uD817","uD818","uD819","uD81A","uD81B","uD81C","uD81D","uD81E","uD81F","uD820",
    "uD821","uD822","uD823","uD824","uD825","uD826","uD827","uD828","uD829","uD82A","uD82B",
    "uD82C","uD82D","uD82E","uD82F","uD830","uD831","uD832","uD833","uD834","uD835","uD836",
    "uD837","uD838","uD839","uD83A","uD83B","uD83C","uD83D","uD83E","uD83F","uD840","uD841",
    "uD842","uD843","uD844","uD845","uD846","uD847","uD848","uD849","uD84A","uD84B","uD84C",
    "uD84D","uD84E","uD84F","uD850","uD851","uD852","uD853","uD854","uD855","uD856","uD857",
    "uD858","uD859","uD85A","uD85B","uD85C","uD85D","uD85E","uD85F","uD860","uD861","uD862",
    "uD863","uD864","uD865","uD866","uD867","uD868","uD869","uD86A","uD86B","uD86C","uD86D",
    "uD86E","uD86F","uD870","uD871","uD872","uD873","uD874","uD875","uD876","uD877","uD878",
    "uD879","uD87A","uD87B","uD87C","uD87D","uD87E","uD87F","uD880","uD881","uD882","uD883",
    "uD884","uD885","uD886","uD887","uD888","uD889","uD88A","uD88B","uD88C","uD88D","uD88E",
    "uD88F","uD890","uD891","uD892","uD893","uD894","uD895","uD896","uD897","uD898","uD899",
    "uD89A","uD89B","uD89C","uD89D","uD89E","uD89F","uD8A0","uD8A1","uD8A2","uD8A3","uD8A4",
    "uD8A5","uD8A6","uD8A7","uD8A8","uD8A9","uD8AA","uD8AB","uD8AC","uD8AD","uD8AE","uD8AF",
    "uD8B0","uD8B1","uD8B2","uD8B3","uD8B4","uD8B5","uD8B6","uD8B7","uD8B8","uD8B9","uD8BA",
    "uD8BB","uD8BC","uD8BD","uD8BE","uD8BF","uD8C0","uD8C1","uD8C2","uD8C3","uD8C4","uD8C5",
    "uD8C6","uD8C7","uD8C8","uD8C9","uD8CA","uD8CB","uD8CC","uD8CD","uD8CE","uD8CF","uD8D0",
    "uD8D1","uD8D2","uD8D3","uD8D4","uD8D5","uD8D6","uD8D7","uD8D8","uD8D9","uD8DA","uD8DB",
    "uD8DC","uD8DD","uD8DE","uD8DF","uD8E0","uD8E1","uD8E2","uD8E3","uD8E4","uD8E5","uD8E6",
    "uD8E7","uD8E8","uD8E9","uD8EA","uD8EB","uD8EC","uD8ED","uD8EE","uD8EF","uD8F0","uD8F1",
    "uD8F2","uD8F3","uD8F4","uD8F5","uD8F6","uD8F7","uD8F8","uD8F9","uD8FA","uD8FB","uD8FC",
    "uD8FD","uD8FE","uD8FF","uD900","uD901","uD902","uD903","uD904","uD905","uD906","uD907",
    "uD908","uD909","uD90A","uD90B","uD90C","uD90D","uD90E","uD90F","uD910","uD911","uD912",
    "uD913","uD914","uD915","uD916","uD917","uD918","uD919","uD91A","uD91B","uD91C","uD91D",
    "uD91E","uD91F","uD920","uD921","uD922","uD923","uD924","uD925","uD926","uD927","uD928",
    "uD929","uD92A","uD92B","uD92C","uD92D","uD92E","uD92F","uD930","uD931","uD932","uD933",
    "uD934","uD935","uD936","uD937","uD938","uD939","uD93A","uD93B","uD93C","uD93D","uD93E",
    "uD93F","uD940","uD941","uD942","uD943","uD944","uD945","uD946","uD947","uD948","uD949",
    "uD94A","uD94B","uD94C","uD94D","uD94E","uD94F","uD950","uD951","uD952","uD953","uD954",
    "uD955","uD956","uD957","uD958","uD959","uD95A","uD95B","uD95C","uD95D","uD95E","uD95F",
    "uD960","uD961","uD962","uD963","uD964","uD965","uD966","uD967","uD968","uD969","uD96A",
    "uD96B","uD96C","uD96D","uD96E","uD96F","uD970","uD971","uD972","uD973","uD974","uD975",
    "uD976","uD977","uD978","uD979","uD97A","uD97B","uD97C","uD97D","uD97E","uD97F","uD980",
    "uD981","uD982","uD983","uD984","uD985","uD986","uD987","uD988","uD989","uD98A","uD98B",
    "uD98C","uD98D","uD98E","uD98F","uD990","uD991","uD992","uD993","uD994","uD995","uD996",
    "uD997","uD998","uD999","uD99A","uD99B","uD99C","uD99D","uD99E","uD99F","uD9A0","uD9A1",
    "uD9A2","uD9A3","uD9A4","uD9A5","uD9A6","uD9A7","uD9A8","uD9A9","uD9AA","uD9AB","uD9AC",
    "uD9AD","uD9AE","uD9AF","uD9B0","uD9B1","uD9B2","uD9B3","uD9B4","uD9B5","uD9B6","uD9B7",
    "uD9B8","uD9B9","uD9BA","uD9BB","uD9BC","uD9BD","uD9BE","uD9BF","uD9C0","uD9C1","uD9C2",
    "uD9C3","uD9C4","uD9C5","uD9C6","uD9C7","uD9C8","uD9C9","uD9CA","uD9CB","uD9CC","uD9CD",
    "uD9CE","uD9CF","uD9D0","uD9D1","uD9D2","uD9D3","uD9D4","uD9D5","uD9D6","uD9D7","uD9D8",
    "uD9D9","uD9DA","uD9DB","uD9DC","uD9DD","uD9DE","uD9DF","uD9E0","uD9E1","uD9E2","uD9E3",
    "uD9E4","uD9E5","uD9E6","uD9E7","uD9E8","uD9E9","uD9EA","uD9EB","uD9EC","uD9ED","uD9EE",
    "uD9EF","uD9F0","uD9F1","uD9F2","uD9F3","uD9F4","uD9F5","uD9F6","uD9F7","uD9F8","uD9F9",
    "uD9FA","uD9FB","uD9FC","uD9FD","uD9FE","uD9FF","uDA00","uDA01","uDA02","uDA03","uDA04",
    "uDA05","uDA06","uDA07","uDA08","uDA09","uDA0A","uDA0B","uDA0C","uDA0D","uDA0E","uDA0F",
    "uDA10","uDA11","uDA12","uDA13","uDA14","uDA15","uDA16","uDA17","uDA18","uDA19","uDA1A",
    "uDA1B","uDA1C","uDA1D","uDA1E","uDA1F","uDA20","uDA21","uDA22","uDA23","uDA24","uDA25",
    "uDA26","uDA27","uDA28","uDA29","uDA2A","uDA2B","uDA2C","uDA2D","uDA2E","uDA2F","uDA30",
    "uDA31","uDA32","uDA33","uDA34","uDA35","uDA36","uDA37","uDA38","uDA39","uDA3A","uDA3B",
    "uDA3C","uDA3D","uDA3E","uDA3F","uDA40","uDA41","uDA42","uDA43","uDA44","uDA45","uDA46",
    "uDA47","uDA48","uDA49","uDA4A","uDA4B","uDA4C","uDA4D","uDA4E","uDA4F","uDA50","uDA51",
    "uDA52","uDA53","uDA54","uDA55","uDA56","uDA57","uDA58","uDA59","uDA5A","uDA5B","uDA5C",
    "uDA5D","uDA5E","uDA5F","uDA60","uDA61","uDA62","uDA63","uDA64","uDA65","uDA66","uDA67",
    "uDA68","uDA69","uDA6A","uDA6B","uDA6C","uDA6D","uDA6E","uDA6F","uDA70","uDA71","uDA72",
    "uDA73","uDA74","uDA75","uDA76","uDA77","uDA78","uDA79","uDA7A","uDA7B","uDA7C","uDA7D",
    "uDA7E","uDA7F","uDA80","uDA81","uDA82","uDA83","uDA84","uDA85","uDA86","uDA87","uDA88",
    "uDA89","uDA8A","uDA8B","uDA8C","uDA8D","uDA8E","uDA8F","uDA90","uDA91","uDA92","uDA93",
    "uDA94","uDA95","uDA96","uDA97","uDA98","uDA99","uDA9A","uDA9B","uDA9C","uDA9D","uDA9E",
    "uDA9F","uDAA0","uDAA1","uDAA2","uDAA3","uDAA4","uDAA5","uDAA6","uDAA7","uDAA8","uDAA9",
    "uDAAA","uDAAB","uDAAC","uDAAD","uDAAE","uDAAF","uDAB0","uDAB1","uDAB2","uDAB3","uDAB4",
    "uDAB5","uDAB6","uDAB7","uDAB8","uDAB9","uDABA","uDABB","uDABC","uDABD","uDABE","uDABF",
    "uDAC0","uDAC1","uDAC2","uDAC3","uDAC4","uDAC5","uDAC6","uDAC7","uDAC8","uDAC9","uDACA",
    "uDACB","uDACC","uDACD","uDACE","uDACF","uDAD0","uDAD1","uDAD2","uDAD3","uDAD4","uDAD5",
    "uDAD6","uDAD7","uDAD8","uDAD9","uDADA","uDADB","uDADC","uDADD","uDADE","uDADF","uDAE0",
    "uDAE1","uDAE2","uDAE3","uDAE4","uDAE5","uDAE6","uDAE7","uDAE8","uDAE9","uDAEA","uDAEB",
    "uDAEC","uDAED","uDAEE","uDAEF","uDAF0","uDAF1","uDAF2","uDAF3","uDAF4","uDAF5","uDAF6",
    "uDAF7","uDAF8","uDAF9","uDAFA","uDAFB","uDAFC","uDAFD","uDAFE","uDAFF","uDB00","uDB01",
    "uDB02","uDB03","uDB04","uDB05","uDB06","uDB07","uDB08","uDB09","uDB0A","uDB0B","uDB0C",
    "uDB0D","uDB0E","uDB0F","uDB10","uDB11","uDB12","uDB13","uDB14","uDB15","uDB16","uDB17",
    "uDB18","uDB19","uDB1A","uDB1B","uDB1C","uDB1D","uDB1E","uDB1F","uDB20","uDB21","uDB22",
    "uDB23","uDB24","uDB25","uDB26","uDB27","uDB28","uDB29","uDB2A","uDB2B","uDB2C","uDB2D",
    "uDB2E","uDB2F","uDB30","uDB31","uDB32","uDB33","uDB34","uDB35","uDB36","uDB37","uDB38",
    "uDB39","uDB3A","uDB3B","uDB3C","uDB3D","uDB3E","uDB3F","uDB40","uDB41","uDB42","uDB43",
    "uDB44","uDB45","uDB46","uDB47","uDB48","uDB49","uDB4A","uDB4B","uDB4C","uDB4D","uDB4E",
    "uDB4F","uDB50","uDB51","uDB52","uDB53","uDB54","uDB55","uDB56","uDB57","uDB58","uDB59",
    "uDB5A","uDB5B","uDB5C","uDB5D","uDB5E","uDB5F","uDB60","uDB61","uDB62","uDB63","uDB64",
    "uDB65","uDB66","uDB67","uDB68","uDB69","uDB6A","uDB6B","uDB6C","uDB6D","uDB6E","uDB6F",
    "uDB70","uDB71","uDB72","uDB73","uDB74","uDB75","uDB76","uDB77","uDB78","uDB79","uDB7A",
    "uDB7B","uDB7C","uDB7D","uDB7E","uDB7F","uDB80","uDB81","uDB82","uDB83","uDB84","uDB85",
    "uDB86","uDB87","uDB88","uDB89","uDB8A","uDB8B","uDB8C","uDB8D","uDB8E","uDB8F","uDB90",
    "uDB91","uDB92","uDB93","uDB94","uDB95","uDB96","uDB97","uDB98","uDB99","uDB9A","uDB9B",
    "uDB9C","uDB9D","uDB9E","uDB9F","uDBA0","uDBA1","uDBA2","uDBA3","uDBA4","uDBA5","uDBA6",
    "uDBA7","uDBA8","uDBA9","uDBAA","uDBAB","uDBAC","uDBAD","uDBAE","uDBAF","uDBB0","uDBB1",
    "uDBB2","uDBB3","uDBB4","uDBB5","uDBB6","uDBB7","uDBB8","uDBB9","uDBBA","uDBBB","uDBBC",
    "uDBBD","uDBBE","uDBBF","uDBC0","uDBC1","uDBC2","uDBC3","uDBC4","uDBC5","uDBC6","uDBC7",
    "uDBC8","uDBC9","uDBCA","uDBCB","uDBCC","uDBCD","uDBCE","uDBCF","uDBD0","uDBD1","uDBD2",
    "uDBD3","uDBD4","uDBD5","uDBD6","uDBD7","uDBD8","uDBD9","uDBDA","uDBDB","uDBDC","uDBDD",
    "uDBDE","uDBDF","uDBE0","uDBE1","uDBE2","uDBE3","uDBE4","uDBE5","uDBE6","uDBE7","uDBE8",
    "uDBE9","uDBEA","uDBEB","uDBEC","uDBED","uDBEE","uDBEF","uDBF0","uDBF1","uDBF2","uDBF3",
    "uDBF4","uDBF5","uDBF6","uDBF7","uDBF8","uDBF9","uDBFA","uDBFB","uDBFC","uDBFD","uDBFE",
    "uDBFF" >>

LowSurrogates == <<
    "uDC00","uDC01","uDC02","uDC03","uDC04","uDC05","uDC06","uDC07","uDC08","uDC09","uDC0A",
    "uDC0B","uDC0C","uDC0D","uDC0E","uDC0F","uDC10","uDC11","uDC12","uDC13","uDC14","uDC15",
    "uDC16","uDC17","uDC18","uDC19","uDC1A","uDC1B","uDC1C","uDC1D","uDC1E","uDC1F","uDC20",
    "uDC21","uDC22","uDC23","uDC24","uDC25","uDC26","uDC27","uDC28","uDC29","uDC2A","uDC2B",
    "uDC2C","uDC2D","uDC2E","uDC2F","uDC30","uDC31","uDC32","uDC33","uDC34","uDC35","uDC36",
    "uDC37","uDC38","uDC39","uDC3A","uDC3B","uDC3C","uDC3D","uDC3E","uDC3F","uDC40","uDC41",
    "uDC42","uDC43","uDC44","uDC45","uDC46","uDC47","uDC48","uDC49","uDC4A","uDC4B","uDC4C",
    "uDC4D","uDC4E","uDC4F","uDC50","uDC51","uDC52","uDC53","uDC54","uDC55","uDC56","uDC57",
    "uDC58","uDC59","uDC5A","uDC5B","uDC5C","uDC5D","uDC5E","uDC5F","uDC60","uDC61","uDC62",
    "uDC63","uDC64","uDC65","uDC66","uDC67","uDC68","uDC69","uDC6A","uDC6B","uDC6C","uDC6D",
    "uDC6E","uDC6F","uDC70","uDC71","uDC72","uDC73","uDC74","uDC75","uDC76","uDC77","uDC78",
    "uDC79","uDC7A","uDC7B","uDC7C","uDC7D","uDC7E","uDC7F","uDC80","uDC81","uDC82","uDC83",
    "uDC84","uDC85","uDC86","uDC87","uDC88","uDC89","uDC8A","uDC8B","uDC8C","uDC8D","uDC8E",
    "uDC8F","uDC90","uDC91","uDC92","uDC93","uDC94","uDC95","uDC96","uDC97","uDC98","uDC99",
    "uDC9A","uDC9B","uDC9C","uDC9D","uDC9E","uDC9F","uDCA0","uDCA1","uDCA2","uDCA3","uDCA4",
    "uDCA5","uDCA6","uDCA7","uDCA8","uDCA9","uDCAA","uDCAB","uDCAC","uDCAD","uDCAE","uDCAF",
    "uDCB0","uDCB1","uDCB2","uDCB3","uDCB4","uDCB5","uDCB6","uDCB7","uDCB8","uDCB9","uDCBA",
    "uDCBB","uDCBC","uDCBD","uDCBE","uDCBF","uDCC0","uDCC1","uDCC2","uDCC3","uDCC4","uDCC5",
    "uDCC6","uDCC7","uDCC8","uDCC9","uDCCA","uDCCB","uDCCC","uDCCD","uDCCE","uDCCF","uDCD0",
    "uDCD1","uDCD2","uDCD3","uDCD4","uDCD5","uDCD6","uDCD7","uDCD8","uDCD9","uDCDA","uDCDB",
    "uDCDC","uDCDD","uDCDE","uDCDF","uDCE0","uDCE1","uDCE2","uDCE3","uDCE4","uDCE5","uDCE6",
    "uDCE7","uDCE8","uDCE9","uDCEA","uDCEB","uDCEC","uDCED","uDCEE","uDCEF","uDCF0","uDCF1",
    "uDCF2","uDCF3","uDCF4","uDCF5","uDCF6","uDCF7","uDCF8","uDCF9","uDCFA","uDCFB","uDCFC",
    "uDCFD","uDCFE","uDCFF","uDD00","uDD01","uDD02","uDD03","uDD04","uDD05","uDD06","uDD07",
    "uDD08","uDD09","uDD0A","uDD0B","uDD0C","uDD0D","uDD0E","uDD0F","uDD10","uDD11","uDD12",
    "uDD13","uDD14","uDD15","uDD16","uDD17","uDD18","uDD19","uDD1A","uDD1B","uDD1C","uDD1D",
    "uDD1E","uDD1F","uDD20","uDD21","uDD22","uDD23","uDD24","uDD25","uDD26","uDD27","uDD28",
    "uDD29","uDD2A","uDD2B","uDD2C","uDD2D","uDD2E","uDD2F","uDD30","uDD31","uDD32","uDD33",
    "uDD34","uDD35","uDD36","uDD37","uDD38","uDD39","uDD3A","uDD3B","uDD3C","uDD3D","uDD3E",
    "uDD3F","uDD40","uDD41","uDD42","uDD43","uDD44","uDD45","uDD46","uDD47","uDD48","uDD49",
    "uDD4A","uDD4B","uDD4C","uDD4D","uDD4E","uDD4F","uDD50","uDD51","uDD52","uDD53","uDD54",
    "uDD55","uDD56","uDD57","uDD58","uDD59","uDD5A","uDD5B","uDD5C","uDD5D","uDD5E","uDD5F",
    "uDD60","uDD61","uDD62","uDD63","uDD64","uDD65","uDD66","uDD67","uDD68","uDD69","uDD6A",
    "uDD6B","uDD6C","uDD6D","uDD6E","uDD6F","uDD70","uDD71","uDD72","uDD73","uDD74","uDD75",
    "uDD76","uDD77","uDD78","uDD79","uDD7A","uDD7B","uDD7C","uDD7D","uDD7E","uDD7F","uDD80",
    "uDD81","uDD82","uDD83","uDD84","uDD85","uDD86","uDD87","uDD88","uDD89","uDD8A","uDD8B",
    "uDD8C","uDD8D","uDD8E","uDD8F","uDD90","uDD91","uDD92","uDD93","uDD94","uDD95","uDD96",
    "uDD97","uDD98","uDD99","uDD9A","uDD9B","uDD9C","uDD9D","uDD9E","uDD9F","uDDA0","uDDA1",
    "uDDA2","uDDA3","uDDA4","uDDA5","uDDA6","uDDA7","uDDA8","uDDA9","uDDAA","uDDAB","uDDAC",
    "uDDAD","uDDAE","uDDAF","uDDB0","uDDB1","uDDB2","uDDB3","uDDB4","uDDB5","uDDB6","uDDB7",
    "uDDB8","uDDB9","uDDBA","uDDBB","uDDBC","uDDBD","uDDBE","uDDBF","uDDC0","uDDC1","uDDC2",
    "uDDC3","uDDC4","uDDC5","uDDC6","uDDC7","uDDC8","uDDC9","uDDCA","uDDCB","uDDCC","uDDCD",
    "uDDCE","uDDCF","uDDD0","uDDD1","uDDD2","uDDD3","uDDD4","uDDD5","uDDD6","uDDD7","uDDD8",
    "uDDD9","uDDDA","uDDDB","uDDDC","uDDDD","uDDDE","uDDDF","uDDE0","uDDE1","uDDE2","uDDE3",
    "uDDE4","uDDE5","uDDE6","uDDE7","uDDE8","uDDE9","uDDEA","uDDEB","uDDEC","uDDED","uDDEE",
    "uDDEF","uDDF0","uDDF1","uDDF2","uDDF3","uDDF4","uDDF5","uDDF6","uDDF7","uDDF8","uDDF9",
    "uDDFA","uDDFB","uDDFC","uDDFD","uDDFE","uDDFF","uDE00","uDE01","uDE02","uDE03","uDE04",
    "uDE05","uDE06","uDE07","uDE08","uDE09","uDE0A","uDE0B","uDE0C","uDE0D","uDE0E","uDE0F",
    "uDE10","uDE11","uDE12","uDE13","uDE14","uDE15","uDE16","uDE17","uDE18","uDE19","uDE1A",
    "uDE1B","uDE1C","uDE1D","uDE1E","uDE1F","uDE20","uDE21","uDE22","uDE23","uDE24","uDE25",
    "uDE26","uDE27","uDE28","uDE29","uDE2A","uDE2B","uDE2C","uDE2D","uDE2E","uDE2F","uDE30",
    "uDE31","uDE32","uDE33","uDE34","uDE35","uDE36","uDE37","uDE38","uDE39","uDE3A","uDE3B",
    "uDE3C","uDE3D","uDE3E","uDE3F","uDE40","uDE41","uDE42","uDE43","uDE44","uDE45","uDE46",
    "uDE47","uDE48","uDE49","uDE4A","uDE4B","uDE4C","uDE4D","uDE4E","uDE4F","uDE50","uDE51",
    "uDE52","uDE53","uDE54","uDE55","uDE56","uDE57","uDE58","uDE59","uDE5A","uDE5B","uDE5C",
    "uDE5D","uDE5E","uDE5F","uDE60","uDE61","uDE62","uDE63","uDE64","uDE65","uDE66","uDE67",
    "uDE68","uDE69","uDE6A","uDE6B","uDE6C","uDE6D","uDE6E","uDE6F","uDE70","uDE71","uDE72",
    "uDE73","uDE74","uDE75","uDE76","uDE77","uDE78","uDE79","uDE7A","uDE7B","uDE7C","uDE7D",
    "uDE7E","uDE7F","uDE80","uDE81","uDE82","uDE83","uDE84","uDE85","uDE86","uDE87","uDE88",
    "uDE89","uDE8A","uDE8B","uDE8C","uDE8D","uDE8E","uDE8F","uDE90","uDE91","uDE92","uDE93",
    "uDE94","uDE95","uDE96","uDE97","uDE98","uDE99","uDE9A","uDE9B","uDE9C","uDE9D","uDE9E",
    "uDE9F","uDEA0","uDEA1","uDEA2","uDEA3","uDEA4","uDEA5","uDEA6","uDEA7","uDEA8","uDEA9",
    "uDEAA","uDEAB","uDEAC","uDEAD","uDEAE","uDEAF","uDEB0","uDEB1","uDEB2","uDEB3","uDEB4",
    "uDEB5","uDEB6","uDEB7","uDEB8","uDEB9","uDEBA","uDEBB","uDEBC","uDEBD","uDEBE","uDEBF",
    "uDEC0","uDEC1","uDEC2","uDEC3","uDEC4","uDEC5","uDEC6","uDEC7","uDEC8","uDEC9","uDECA",
    "uDECB","uDECC","uDECD","uDECE","uDECF","uDED0","uDED1","uDED2","uDED3","uDED4","uDED5",
    "uDED6","uDED7","uDED8","uDED9","uDEDA","uDEDB","uDEDC","uDEDD","uDEDE","uDEDF","uDEE0",
    "uDEE1","uDEE2","uDEE3","uDEE4","uDEE5","uDEE6","uDEE7","uDEE8","uDEE9","uDEEA","uDEEB",
    "uDEEC","uDEED","uDEEE","uDEEF","uDEF0","uDEF1","uDEF2","uDEF3","uDEF4","uDEF5","uDEF6",
    "uDEF7","uDEF8","uDEF9","uDEFA","uDEFB","uDEFC","uDEFD","uDEFE","uDEFF","uDF00","uDF01",
    "uDF02","uDF03","uDF04","uDF05","uDF06","uDF07","uDF08","uDF09","uDF0A","uDF0B","uDF0C",
    "uDF0D","uDF0E","uDF0F","uDF10","uDF11","uDF12","uDF13","uDF14","uDF15","uDF16","uDF17",
    "uDF18","uDF19","uDF1A","uDF1B","uDF1C","uDF1D","uDF1E","uDF1F","uDF20","uDF21","uDF22",
    "uDF23","uDF24","uDF25","uDF26","uDF27","uDF28","uDF29","uDF2A","uDF2B","uDF2C","uDF2D",
    "uDF2E","uDF2F","uDF30","uDF31","uDF32","uDF33","uDF34","uDF35","uDF36","uDF37","uDF38",
    "uDF39","uDF3A","uDF3B","uDF3C","uDF3D","uDF3E","uDF3F","uDF40","uDF41","uDF42","uDF43",
    "uDF44","uDF45","uDF46","uDF47","uDF48","uDF49","uDF4A","uDF4B","uDF4C","uDF4D","uDF4E",
    "uDF4F","uDF50","uDF51","uDF52","uDF53","uDF54","uDF55","uDF56","uDF57","uDF58","uDF59",
    "uDF5A","uDF5B","uDF5C","uDF5D","uDF5E","uDF5F","uDF60","uDF61","uDF62","uDF63","uDF64",
    "uDF65","uDF66","uDF67","uDF68","uDF69","uDF6A","uDF6B","uDF6C","uDF6D","uDF6E","uDF6F",
    "uDF70","uDF71","uDF72","uDF73","uDF74","uDF75","uDF76","uDF77","uDF78","uDF79","uDF7A",
    "uDF7B","uDF7C","uDF7D","uDF7E","uDF7F","uDF80","uDF81","uDF82","uDF83","uDF84","uDF85",
    "uDF86","uDF87","uDF88","uDF89","uDF8A","uDF8B","uDF8C","uDF8D","uDF8E","uDF8F","uDF90",
    "uDF91","uDF92","uDF93","uDF94","uDF95","uDF96","uDF97","uDF98","uDF99","uDF9A","uDF9B",
    "uDF9C","uDF9D","uDF9E","uDF9F","uDFA0","uDFA1","uDFA2","uDFA3","uDFA4","uDFA5","uDFA6",
    "uDFA7","uDFA8","uDFA9","uDFAA","uDFAB","uDFAC","uDFAD","uDFAE","uDFAF","uDFB0","uDFB1",
    "uDFB2","uDFB3","uDFB4","uDFB5","uDFB6","uDFB7","uDFB8","uDFB9","uDFBA","uDFBB","uDFBC",
    "uDFBD","uDFBE","uDFBF","uDFC0","uDFC1","uDFC2","uDFC3","uDFC4","uDFC5","uDFC6","uDFC7",
    "uDFC8","uDFC9","uDFCA","uDFCB","uDFCC","uDFCD","uDFCE","uDFCF","uDFD0","uDFD1","uDFD2",
    "uDFD3","uDFD4","uDFD5","uDFD6","uDFD7","uDFD8","uDFD9","uDFDA","uDFDB","uDFDC","uDFDD",
    "uDFDE","uDFDF","uDFE0","uDFE1","uDFE2","uDFE3","uDFE4","uDFE5","uDFE6","uDFE7","uDFE8",
    "uDFE9","uDFEA","uDFEB","uDFEC","uDFED","uDFEE","uDFEF","uDFF0","uDFF1","uDFF2","uDFF3",
    "uDFF4","uDFF5","uDFF6","uDFF7","uDFF8","uDFF9","uDFFA","uDFFB","uDFFC","uDFFD","uDFFE",
    "uDFFF" >>

HighSurrogateSet == { HighSurrogates[i] : i \in DOMAIN HighSurrogates }

LowSurrogateSet == { LowSurrogates[i] : i \in DOMAIN LowSurrogates }

\* the characters of U+10000..U+10FFFF that toLowerCase maps to another one:
\* <<first, last, distance to the lower-case character>>, by code point
AstralLowerRanges == <<
    <<66560, 66599, 40>>, <<66736, 66771, 40>>, <<66928, 66938, 39>>, <<66940, 66954, 39>>,
    <<66956, 66962, 39>>, <<66964, 66965, 39>>, <<68736, 68786, 64>>, <<68944, 68965, 32>>,
    <<71840, 71871, 32>>, <<93760, 93791, 32>>, <<93856, 93880, 27>>, <<125184, 125217, 34>> >>

\* the characters of U+10000..U+10FFFF with the property Cased: <<first, last>>
AstralCasedRanges == <<
    <<66560, 66639>>, <<66736, 66771>>, <<66776, 66811>>, <<66928, 66938>>, <<66940, 66954>>,
    <<66956, 66962>>, <<66964, 66965>>, <<66967, 66977>>, <<66979, 66993>>, <<66995, 67001>>,
    <<67003, 67004>>, <<67456, 67456>>, <<67459, 67461>>, <<67463, 67504>>, <<67506, 67514>>,
    <<68736, 68786>>, <<68800, 68850>>, <<68944, 68965>>, <<68976, 68997>>, <<71840, 71903>>,
    <<93760, 93823>>, <<93856, 93880>>, <<93883, 93907>>, <<119808, 119892>>,
    <<119894, 119964>>, <<119966, 119967>>, <<119970, 119970>>, <<119973, 119974>>,
    <<119977, 119980>>, <<119982, 119993>>, <<119995, 119995>>, <<119997, 120003>>,
    <<120005, 120069>>, <<120071, 120074>>, <<120077, 120084>>, <<120086, 120092>>,
    <<120094, 120121>>, <<120123, 120126>>, <<120128, 120132>>, <<120134, 120134>>,
    <<120138, 120144>>, <<120146, 120485>>, <<120488, 120512>>, <<120514, 120538>>,
    <<120540, 120570>>, <<120572, 120596>>, <<120598, 120628>>, <<120630, 120654>>,
    <<120656, 120686>>, <<120688, 120712>>, <<120714, 120744>>, <<120746, 120770>>,
    <<120772, 120779>>, <<122624, 122633>>, <<122635, 122654>>, <<122661, 122666>>,
    <<122928, 122989>>, <<125184, 125251>>, <<127280, 127305>>, <<127312, 127337>>,
    <<127344, 127369>> >>

\* the characters of U+10000..U+10FFFF with the property Case_Ignorable
AstralCaseIgnorableRanges == <<
    <<66045, 66045>>, <<66272, 66272>>, <<66422, 66426>>, <<67456, 67461>>, <<67463, 67504>>,
    <<67506, 67514>>, <<68097, 68099>>, <<68101, 68102>>, <<68108, 68111>>, <<68152, 68154>>,
    <<68159, 68159>>, <<68325, 68326>>, <<68900, 68903>>, <<68942, 68942>>, <<68969, 68973>>,
    <<68975, 68975>>, <<69291, 69292>>, <<69317, 69317>>, <<69370, 69375>>, <<69446, 69456>>,
    <<69506, 69509>>, <<69633, 69633>>, <<69688, 69702>>, <<69744, 69744>>, <<69747, 69748>>,
    <<69759, 69761>>, <<69811, 69814>>, <<69817, 69818>>, <<69821, 69821>>, <<69826, 69826>>,
    <<69837, 69837>>, <<69888, 69890>>, <<69927, 69931>>, <<69933, 69940>>, <<70003, 70003>>,
    <<70016, 70017>>, <<70070, 70078>>, <<70089, 70092>>, <<70095, 70095>>, <<70191, 70193>>,
    <<70196, 70196>>, <<70198, 70199>>, <<70206, 70206>>, <<70209, 70209>>, <<70367, 70367>>,
    <<70371, 70378>>, <<70400, 70401>>, <<70459, 70460>>, <<70464, 70464>>, <<70502, 70508>>,
    <<70512, 70516>>, <<70587, 70592>>, <<70606, 70606>>, <<70608, 70608>>, <<70610, 70610>>,
    <<70625, 70626>>, <<70712, 70719>>, <<70722, 70724>>, <<70726, 70726>>, <<70750, 70750>>,
    <<70835, 70840>>, <<70842, 70842>>, <<70847, 70848>>, <<70850, 70851>>, <<71090, 71093>>,
    <<71100, 71101>>, <<71103, 71104>>, <<71132, 71133>>, <<71219, 71226>>, <<71229, 71229>>,
    <<71231, 71232>>, <<71339, 71339>>, <<71341, 71341>>, <<71344, 71349>>, <<71351, 71351>>,
    <<71453, 71453>>, <<71455, 71455>>, <<71458, 71461>>, <<71463, 71467>>, <<71727, 71735>>,
    <<71737, 71738>>, <<71995, 71996>>, <<71998, 71998>>, <<72003, 72003>>, <<72148, 72151>>,
    <<72154, 72155>>, <<72160, 72160>>, <<72193, 72202>>, <<72243, 72248>>, <<72251, 72254>>,
    <<72263, 72263>>, <<72273, 72278>>, <<72281, 72283>>, <<72330, 72342>>, <<72344, 72345>>,
    <<72544, 72544>>, <<72546, 72548>>, <<72550, 72550>>, <<72752, 72758>>, <<72760, 72765>>,
    <<72767, 72767>>, <<72850, 72871>>, <<72874, 72880>>, <<72882, 72883>>, <<72885, 72886>>,
    <<73009, 73014>>, <<73018, 73018>>, <<73020, 73021>>, <<73023, 73029>>, <<73031, 73031>>,
    <<73104, 73105>>, <<73109, 73109>>, <<73111, 73111>>, <<73177, 73177>>, <<73459, 73460>>,
    <<73472, 73473>>, <<73526, 73530>>, <<73536, 73536>>, <<73538, 73538>>, <<73562, 73562>>,
    <<78896, 78912>>, <<78919, 78933>>, <<90398, 90409>>, <<90413, 90415>>, <<92912, 92916>>,
    <<92976, 92982>>, <<92992, 92995>>, <<93504, 93506>>, <<93547, 93548>>, <<94031, 94031>>,
    <<94095, 94111>>, <<94176, 94177>>, <<94179, 94180>>, <<94194, 94195>>, <<110576, 110579>>,
    <<110581, 110587>>, <<110589, 110590>>, <<113821, 113822>>, <<113824, 113827>>,
    <<118528, 118573>>, <<118576, 118598>>, <<119143, 119145>>, <<119155, 119170>>,
    <<119173, 119179>>, <<119210, 119213>>, <<119362, 119364>>, <<121344, 121398>>,
    <<121403, 121452>>, <<121461, 121461>>, <<121476, 121476>>, <<121499, 121503>>,
    <<121505, 121519>>, <<122880, 122886>>, <<122888, 122904>>, <<122907, 122913>>,
    <<122915, 122916>>, <<122918, 122922>>, <<122928, 122989>>, <<123023, 123023>>,
    <<123184, 123197>>, <<123566, 123566>>, <<123628, 123631>>, <<124139, 124143>>,
    <<124398, 124399>>, <<124643, 124643>>, <<124646, 124646>>, <<124654, 124655>>,
    <<124661, 124661>>, <<124671, 124671>>, <<125136, 125142>>, <<125252, 125259>>,
    <<127995, 127999>>, <<917505, 917505>>, <<917536, 917631>>, <<917760, 917999>> >>


\* the characters of U+0000..U+007F that toLowerCase leaves as they are: all
\* but the letters A to Z
AsciiFixed ==
    { "\t", "\n", "u000B", "\f", "\r", " ", "!", "\"", "#", "$", "%", "&", "'", "(", ")",
      "*", "+", ",", "-", ".", "/", "0", "1", "2", "3", "4", "5", "6", "7", "8", "9",
      ":", ";", "<", "=", ">", "?", "@", "[", "\\", "]", "^", "_", "u0060",
      "a", "b", "c", "d", "e", "f", "g", "h", "i", "j", "k", "l", "m",
      "n", "o", "p", "q", "r", "s", "t", "u", "v", "w", "x", "y", "z", "{", "|", "}", "~" }

\* c.toLowerCase() for a string of one code unit: the code units of the result
\* (U+0130 is the one character of the range whose result has two)
ToLowerChar(c) ==
    IF c \in AsciiFixed THEN << c >>
    ELSE IF \E i \in DOMAIN UpperChars : UpperChars[i] = c
    THEN << LowerChars[CHOOSE i \in DOMAIN UpperChars : UpperChars[i] = c] >>
    ELSE IF c = "u0130" THEN <<"i", "u0307">>
    ELSE IF c \in OtherUpperSet
    THEN << OtherLowerChars[CHOOSE i \in DOMAIN OtherUpperChars : OtherUpperChars[i] = c] >>
    ELSE << c >>

\* the characters of a string of code units, each the sequence of its one or
\* two code units: a high surrogate and the low surrogate after it are one
\* character, a surrogate without its partner is a character of its own
RECURSIVE CodePointsFrom(_, _)
CodePointsFrom(s, i) ==
    IF i > Len(s) THEN <<>>
    ELSE IF /\ i < Len(s)
            /\ s[i] \notin AsciiFixed
            /\ s[i] \in HighSurrogateSet
            /\ s[i + 1] \in LowSurrogateSet
    THEN << <<s[i], s[i + 1]>> >> \o CodePointsFrom(s, i + 2)
    ELSE << <<s[i]>> >> \o CodePointsFrom(s, i + 1)

\* the code point of a surrogate pair
CodePointOf(p) ==
    65536 + 1024 * ((CHOOSE h \in DOMAIN HighSurrogates : HighSurrogates[h] = p[1]) - 1)
          + ((CHOOSE l \in DOMAIN LowSurrogates : LowSurrogates[l] = p[2]) - 1)

InRanges(cp, table) == \E r \in DOMAIN table : table[r][1] <= cp /\ cp <= table[r][2]

\* the code units a character contributes when no context rule applies: for a
\* character of U+10000..U+10FFFF the surrogate pair of its lower-case character
LowerPoint(p) ==
    IF Len(p) = 1 THEN ToLowerChar(p[1])
    ELSE LET cp == CodePointOf(p)
             lower == IF InRanges(cp, AstralLowerRanges)
                      THEN cp + AstralLowerRanges[CHOOSE r \in DOMAIN AstralLowerRanges :
                                                     AstralLowerRanges[r][1] <= cp
                                                     /\ cp <= AstralLowerRanges[r][2]][3]
                      ELSE cp
         IN  << HighSurrogates[((lower - 65536) \div 1024) + 1],
                LowSurrogates[((lower - 65536) % 1024) + 1] >>

\* the property Case_Ignorable of a character
CaseIgnorable(p) ==
    IF Len(p) = 2 THEN InRanges(CodePointOf(p), AstralCaseIgnorableRanges)
    ELSE p[1] \in CaseIgnorableChars

\* a cased letter for the context rule: a character with the property Cased
\* that is not case-ignorable (a case-ignorable character is skipped before
\* it is asked whether it is cased)
Cased(p) ==
    /\ ~CaseIgnorable(p)
    /\ IF Len(p) = 2 THEN InRanges(CodePointOf(p), AstralCasedRanges)
       ELSE \/ \E i \in DOMAIN UpperChars : UpperChars[i] = p[1] \/ LowerChars[i] = p[1]
            \/ p[1] \in OtherCasedChars

\* the condition Final_Sigma of Unicode's SpecialCasing: a cased letter comes
\* before character i and none comes after it, case-ignorable characters skipped
FinalSigma(ps, i) ==
    /\ \E j \in 1..(i - 1) :
          Cased(ps[j]) /\ \A k \in (j + 1)..(i - 1) : CaseIgnorable(ps[k])
    /\ ~\E j \in (i + 1)..Len(ps) :
          Cased(ps[j]) /\ \A k \in (i + 1)..(j - 1) : CaseIgnorable(ps[k])

\* the lower-cased string from character i of ps on: a capital sigma in final
\* position gives the final small sigma
RECURSIVE LowerFrom(_, _)
LowerFrom(ps, i) ==
    IF i > Len(ps) THEN <<>>
    ELSE (IF ps[i] = <<"u03A3">> /\ FinalSigma(ps, i) THEN <<"u03C2">> ELSE LowerPoint(ps[i]))
         \o LowerFrom(ps, i + 1)

\* String.prototype.toLowerCase, on strings of code units
ToLowerCase(s) ==
    CHOOSE lower \in { LowerFrom(ps, 1) : ps \in { CodePointsFrom(s, 1) } } : TRUE

\* String.prototype.includes: t occurs in s as a contiguous substring
Includes(s, t) ==
    \E hay \in { s }, needle \in { t } :
        /\ Len(needle) <= Len(hay)
        /\ \E i \in 0..(Len(hay) - Len(needle)) :
              SubSeq(hay, i + 1, i + Len(needle)) = needle

(***************************************************************************)
(* Devices.                                                                *)
(***************************************************************************)
Device(n, i, a, c) == [name |-> n, id |-> i, address |-> a, connected |-> c]

Id1 == <<"0","0",":","1","1",":","2","2",":","3","3",":","4","4",":","5","5">>
Id2 == <<"0","0",":","2","2",":","3","3",":","4","4",":","5","5",":","6","6">>
Id3 == <<"0","0",":","3","3",":","4","4",":","5","5",":","6","6",":","7","7">>

MOCK_DEVICES ==
    << Device(<<"G","e","n","e","r","i","c"," ","B","l","u","e","t","o","o","t","h"," ",
                "S","p","e","a","k","e","r">>, Id1, Id1, FALSE),
       Device(<<"W","Y","S","-","2","3","0","1","B","T">>, Id2, Id2, FALSE),
       Device(<<"P","o","r","t","a","b","l","e"," ","S","p","e","a","k","e","r">>,
              Id3, Id3, FALSE) >>

\* the names of the candidate pool of scanForDevices, in the order of the array
additionalNames ==
    << <<"J","B","L"," ","F","l","i","p">>,
       <<"B","o","s","e"," ","S","o","u","n","d","L","i","n","k">>,
       <<"S","o","n","y"," ","S","R","S","-","X","B","1","2">>,
       <<"A","n","k","e","r"," ","S","o","u","n","d","c","o","r","e">> >>

\* const hexChars = "0123456789ABCDEF"
hexChars == {"0","1","2","3","4","5","6","7","8","9","A","B","C","D","E","F"}

\* generateRandomId: twelve hex digits drawn at random, joined in pairs by ":"
generateRandomId(d) ==
    [k \in 1..17 |-> IF k % 3 = 0 THEN ":" ELSE d[2 * ((k - 1) \div 3) + ((k - 1) % 3) + 1]]

HexPairs(a, b, c, d, e, f) == <<a[1],a[2], b[1],b[2], c[1],c[2], d[1],d[2], e[1],e[2], f[1],f[2]>>

\* Outcomes of Math.random() in generateRandomId that the model draws from: each
\* is the digits of the successive calls of one operation (id, address, id, ...).
\* One run of all-different ids and one in which every call returns the id of
\* a baseline device.
FreshDigits ==
    [k \in 1..6 |-> HexPairs(<<"A","1">>, <<"B","2">>, <<"C","3">>, <<"D","4">>, <<"E","5">>,
                             <<"F", <<"0","1","2","3","4","5">>[k]>>)]
BaselineDigits == [k \in 1..6 |-> <<"0","0","1","1","2","2","3","3","4","4","5","5">>]

RandomDraws == { FreshDigits, BaselineDigits }

\* the draws of a forceConnectToDevice placeholder (id, address)
PlaceholderDigits ==
    { << HexPairs(<<"9","9">>, <<"8","8">>, <<"7","7">>, <<"6","6">>, <<"5","5">>, <<"4","4">>),
         HexPairs(<<"9","9">>, <<"8","8">>, <<"7","7">>, <<"6","6">>, <<"5","5">>, <<"4","3">>) >>,
      << FreshDigits[1], FreshDigits[1] >> }

(***************************************************************************)
(* forceConnectToDevice's search: the predicate of devices.find            *)
(***************************************************************************)
Matches(d, q) ==
    \/ d.name # <<>> /\ Includes(ToLowerCase(d.name), ToLowerCase(q))
    \/ d.id = q
    \/ d.address = q

\* Array.prototype.find as an index: the first match, 0 when there is none
FindIndex(devs, q) ==
    IF \E i \in DOMAIN devs : Matches(devs[i], q)
    THEN CHOOSE i \in DOMAIN devs :
            Matches(devs[i], q) /\ \A j \in 1..(i - 1) : ~Matches(devs[j], q)
    ELSE 0

\* the queries the model passes to forceConnectToDevice
Queries ==
    { <<"w","y","s">>,            \* matches a baseline device, case-insensitively
      <<"J","B","L">>,            \* matches only a device a scan may discover
      <<"X","Y","Z">>,            \* matches nothing
      Id3,                        \* an id / address
      <<>> }                      \* the empty query

\* `found`: the device of the list a scan produced that the query matches;
\* `alert`: the alert the operation opened
NoOp == [op |-> "none", query |-> <<>>, result |-> FALSE, target |-> None,
         synth |-> FALSE, scanned |-> FALSE, found |-> None, alert |-> "none"]

NoDispatch == [id |-> 0, message |-> <<>>, stopRequested |-> FALSE, inFlight |-> FALSE]

NoSpeak == [id |-> 0, alert |-> "none", promise |-> "none", failed |-> FALSE]

NoPhrase == [english |-> <<>>, vietnamese |-> <<>>, via |-> "none", held |-> <<>>]

\* `connected`: a device was connected in the app when the notification came;
\* `spoke`: ActiveTts.speak was called for it, with `text`; `received`: the
\* calls of onPaymentReceived it led to, in order, each with its arguments
NoPayment == [message |-> <<>>, connected |-> FALSE, alert |-> "none", spoke |-> FALSE,
              text |-> <<>>, amount |-> <<>>, sender |-> <<>>, callbackThrows |-> FALSE,
              received |-> <<>>]

DEFAULT_VIETNAMESE_PHRASES ==
    << <<<<"h","e","l","l","o">>,
         <<"X","i","n"," ","c","h","u00E0","o">>>>,
       <<<<"t","h","a","n","k"," ","y","o","u">>,
         <<"C","u1EA3","m"," ","u01A1","n"," ","b","u1EA1","n">>>>,
       <<<<"g","o","o","d","b","y","e">>,
         <<"T","u1EA1","m"," ","b","i","u1EC7","t">>>>,
       <<<<"w","e","l","c","o","m","e">>,
         <<"C","h","u00E0","o"," ","m","u1EEB","n","g">>>>,
       <<<<"h","o","w"," ","a","r","e"," ","y","o","u">>,
         <<"B","u1EA1","n"," ","k","h","u1ECF","e"," ","k","h","u00F4","n","g">>>>,
       <<<<"g","o","o","d"," ","m","o","r","n","i","n","g">>,
         <<"C","h","u00E0","o"," ","b","u","u1ED5","i"," ","s","u00E1","n","g">>>>,
       <<<<"g","o","o","d"," ","a","f","t","e","r","n","o","o","n">>,
         <<"C","h","u00E0","o"," ","b","u","u1ED5","i"," ","c","h","i","u1EC1","u">>>>,
       <<<<"g","o","o","d"," ","e","v","e","n","i","n","g">>,
         <<"C","h","u00E0","o"," ","b","u","u1ED5","i"," ","t","u1ED1","i">>>>,
       <<<<"p","l","e","a","s","e">>,
         <<"L","u00E0","m"," ","u01A1","n">>>>,
       <<<<"s","o","r","r","y">>,
         <<"X","i","n"," ","l","u1ED7","i">>>>,
       <<<<"w","h","a","t"," ","i","s"," ","y","o","u","r"," ","n","a","m","e">>,
         <<"T","u00EA","n"," ","b","u1EA1","n"," ","l","u00E0"," ","g","u00EC">>>>,
       <<<<"m","y"," ","n","a","m","e"," ","i","s">>,
         <<"T","u00EA","n"," ","t","u00F4","i"," ","l","u00E0">>>>,
       <<<<"n","i","c","e"," ","t","o"," ","m","e","e","t"," ","y","o","u">>,
         <<"R","u1EA5","t"," ","v","u","i"," ","u0111","u01B0","u1EE3","c"," ","g","u1EB7","p"," ","b","u1EA1","n">>>>,
       <<<<"p","a","y","m","e","n","t"," ","s","u","c","c","e","s","s","f","u","l">>,
         <<"T","h","a","n","h"," ","t","o","u00E1","n"," ","t","h","u00E0","n","h"," ","c","u00F4","n","g">>>>,
       <<<<"p","a","y","m","e","n","t"," ","r","e","c","e","i","v","e","d">>,
         <<"u0110","u00E3"," ","n","h","u1EAD","n"," ","t","h","a","n","h"," ","t","o","u00E1","n">>>> >>

(***************************************************************************)
(* The engine.                                                             *)
(***************************************************************************)
\* the module-level detection: MockTts when the Tts import is undefined or
\* null, when NativeModules.TextToSpeech is missing, or when the test throws
DetectTts(ttsDefined, nativeModule, detectionThrows) ==
    IF detectionThrows THEN "MockTts"
    ELSE IF ~ttsDefined \/ ~nativeModule THEN "MockTts"
    ELSE "Tts"

\* the engine methods initTts and getAvailableLanguages call
EngineMethods ==
    {"getInitStatus", "voices", "setDefaultLanguage", "setDefaultRate", "setDefaultPitch"}

\* a mock whose promises stay pending like those of the native engine
ResolvesLater(engine) == FALSE

\* every method of MockTts returns Promise.resolve(...): awaiting it does not
\* let any other handler run
ResolvesAtOnce(engine) == engine = "MockTts"

\* no method of MockTts throws
Throws(method) == ActiveTts = "Tts" /\ method \in throwing

\* [{ language: "vi-VN", name: "Vietnamese (Fallback)" }]
FallbackVoices == << [language |-> "vi-VN", name |-> "Vietnamese (Fallback)"] >>

\* MockTts.voices()
MockVoices == << [language |-> "vi-VN", name |-> "Vietnamese (Mock)"] >>

\* a voice query: new Promise(resolve => { setTimeout(..., 3000); ActiveTts.voices()... })
\* timer: none / armed / fired / cleared;  engine: none / pending / answered /
\* rejected / threw;  by: what resolved it, none / engine / timeout / error
NoQuery == [timer |-> "none", engine |-> "none", result |-> <<>>, array |-> TRUE, by |-> "none"]

QueryPending == [NoQuery EXCEPT !.timer = "armed", !.engine = "pending"]

\* voices() threw inside the executor: the promise is rejected, the catch block
\* of the caller takes the fallback, and the timer stays set
QueryThrew == [timer |-> "armed", engine |-> "threw", result |-> FallbackVoices,
               array |-> TRUE, by |-> "error"]

\* MockTts.voices() is already resolved: its .then runs before any timer
QueryMock == [timer |-> "cleared", engine |-> "answered", result |-> MockVoices,
              array |-> TRUE, by |-> "engine"]

\* what the native voices() may resolve with: null, an array of voices (one of
\* them without a language), or something that is not an array
EngineVoiceAnswers ==
    { [kind |-> "null", list |-> <<>>],
      [kind |-> "array", list |-> <<>>],
      [kind |-> "array", list |-> << [language |-> "en-US", name |-> "English"],
                                     [language |-> "", name |-> "Unnamed"],
                                     [language |-> "vi-VN", name |-> "Linh"],
                                     [language |-> "en-US", name |-> "English 2"] >>],
      [kind |-> "other", list |-> <<>>] }

\* a race in which the timeout never wins
QueryTimedOutIgnored(q) == q

\* the timer of a voice query fires: resolve(fallback), which only counts when
\* nothing resolved the promise before
QueryTimedOut(q) ==
    IF q.by = "none"
    THEN [q EXCEPT !.timer = "fired", !.result = FallbackVoices, !.by = "timeout"]
    ELSE [q EXCEPT !.timer = "fired"]

\* an answer that is taken whenever it comes
QueryAnsweredWheneverItComes(q, a) ==
    [timer |-> "cleared", engine |-> "answered", result |-> a.list,
     array |-> a.kind # "other", by |-> "engine"]

\* .then(result => { clearTimeout(timeout); resolve(result || []) })
QueryAnswered(q, a) ==
    IF q.by = "none"
    THEN [timer |-> "cleared", engine |-> "answered", result |-> a.list,
          array |-> a.kind # "other", by |-> "engine"]
    ELSE [q EXCEPT !.engine = "answered"]

\* .catch(err => { clearTimeout(timeout); resolve(fallback) })
QueryRejected(q) ==
    IF q.by = "none"
    THEN [timer |-> "cleared", engine |-> "rejected", result |-> FallbackVoices,
          array |-> TRUE, by |-> "error"]
    ELSE [q EXCEPT !.engine = "rejected"]

\* a dictionary that starts empty
SeedPhrasesEmpty(defaults) == <<>>

\* useRef({ ...DEFAULT_VIETNAMESE_PHRASES }): a copy of the built-in set
SeedPhrases(defaults) == defaults

\* the state after construction, for a given choice of throwing engine methods
InitThrowing(throwingSets) ==
    /\ \E ttsDefined, nativeModule, detectionThrows \in BOOLEAN :
          ActiveTts = DetectTts(ttsDefined, nativeModule, detectionThrows)
    /\ throwing \in throwingSets
    /\ availableLanguages = <<>>
    /\ initCalled = {}
    /\ initFailed = {}
    /\ initVoices = NoQuery
    /\ langCalls = <<>>
    /\ nLang = 0
    /\ initPc = "none"
    /\ listening = {}
    /\ isSpeaking = FALSE
    /\ vietnamesePhrases = SeedPhrases(DEFAULT_VIETNAMESE_PHRASES)
    /\ calls = {}
    /\ timers = <<>>
    /\ utterances = <<>>
    /\ engineCalls = 0
    /\ spoken = <<>>
    /\ lastDispatch = NoDispatch
    /\ lastSpeak = NoSpeak
    /\ nSpeaks = 0
    /\ mounted = FALSE
    /\ devices = <<>>
    /\ connectedDevice = None
    /\ isScanning = FALSE
    /\ scanQ = <<>>
    /\ prompts = <<>>
    /\ last = NoOp
    /\ nScans = 0
    /\ nForce = 0
    /\ firstInserted = [i \in DOMAIN DEFAULT_VIETNAMESE_PHRASES |->
                            DEFAULT_VIETNAMESE_PHRASES[i][1]]
    /\ phraseAlert = "none"
    /\ lastPhrase = NoPhrase
    /\ nPhrases = 0
    /\ screenAlerts = <<>>
    /\ linking = 0
    /\ serviceConnectedDevice = None
    /\ lastPayment = NoPayment
    /\ nPayments = 0

\* the engine's methods return promises
Init == InitThrowing({{}})

\* any of the engine's methods may throw
InitEngine == InitThrowing(SUBSET EngineMethods)

(***************************************************************************)
(* initTts.  It runs from one await to the next; a call that throws is     *)
(* caught and the function goes on in the same step, and with MockTts      *)
(* every awaited promise is already resolved.                              *)
(***************************************************************************)
InitState == [pc |-> initPc, called |-> initCalled, failed |-> initFailed,
              voices |-> initVoices, langs |-> availableLanguages, listening |-> listening]

\* a list that is left as the engine gave it
AddVietnameseNever(prev) == prev

\* setAvailableLanguages(prev => prev.includes("vi-VN") ? prev : [...prev, "vi-VN"])
AddVietnamese(prev) ==
    IF \E i \in DOMAIN prev : prev[i] = "vi-VN" THEN prev ELSE Append(prev, "vi-VN")

InitFinish(st) == [st EXCEPT !.pc = "done", !.langs = AddVietnamese(st.langs)]

\* await ActiveTts.setDefaultPitch(1.0).catch(() => null), inside the try of the rate
InitCallPitch(st) ==
    LET s1 == [st EXCEPT !.called = @ \cup {"setDefaultPitch"}] IN
    IF Throws("setDefaultPitch") THEN InitFinish([s1 EXCEPT !.failed = @ \cup {"setDefaultPitch"}])
    ELSE IF ResolvesAtOnce(ActiveTts) THEN InitFinish(s1)
    ELSE [s1 EXCEPT !.pc = "setDefaultPitch"]

\* await ActiveTts.setDefaultRate(0.5).catch(() => null): when the call throws,
\* catch (rateErr) is entered and the pitch line is skipped
InitCallRate(st) ==
    LET s1 == [st EXCEPT !.called = @ \cup {"setDefaultRate"}] IN
    IF Throws("setDefaultRate") THEN InitFinish([s1 EXCEPT !.failed = @ \cup {"setDefaultRate"}])
    ELSE IF ResolvesAtOnce(ActiveTts) THEN InitCallPitch(s1)
    ELSE [s1 EXCEPT !.pc = "setDefaultRate"]

\* await ActiveTts.setDefaultLanguage("vi-VN").catch(...), in its own try
InitCallLanguage(st) ==
    LET s1 == [st EXCEPT !.called = @ \cup {"setDefaultLanguage"}] IN
    IF Throws("setDefaultLanguage")
    THEN InitCallRate([s1 EXCEPT !.failed = @ \cup {"setDefaultLanguage"}])
    ELSE IF ResolvesAtOnce(ActiveTts) THEN InitCallRate(s1)
    ELSE [s1 EXCEPT !.pc = "setDefaultLanguage"]

\* the events initTts listens to, in the order of its addEventListener calls
ListenerEvents == <<"tts-start", "tts-finish", "tts-cancel", "tts-error">>

\* the four addEventListener calls (native engine only), then the voice query.
\* When the addEventListener call of that number throws (0: none throws), the
\* listeners of the calls before it are registered: the catch of the one try
\* around the four calls skips the rest.
InitCallVoices(st, addEventListenerThrowsAt) ==
    LET registered ==
            IF ActiveTts # "Tts" THEN {}
            ELSE IF addEventListenerThrowsAt = 0
            THEN { ListenerEvents[k] : k \in DOMAIN ListenerEvents }
            ELSE { ListenerEvents[k] : k \in 1..(addEventListenerThrowsAt - 1) }
        s1 == [st EXCEPT !.called = @ \cup {"voices"}, !.listening = registered] IN
    IF Throws("voices") THEN InitCallLanguage([s1 EXCEPT !.voices = QueryThrew])
    ELSE IF ResolvesAtOnce(ActiveTts) THEN InitCallLanguage([s1 EXCEPT !.voices = QueryMock])
    ELSE [s1 EXCEPT !.pc = "voices", !.voices = QueryPending]

\* await ActiveTts.getInitStatus().catch(...), in its own try
InitCallGetInitStatus(st, addEventListenerThrowsAt) ==
    LET s1 == [st EXCEPT !.called = @ \cup {"getInitStatus"}] IN
    IF Throws("getInitStatus") \/ ResolvesAtOnce(ActiveTts)
    THEN InitCallVoices(s1, addEventListenerThrowsAt)
    ELSE [s1 EXCEPT !.pc = "getInitStatus"]

InitAssign(st) ==
    /\ initPc' = st.pc
    /\ initCalled' = st.called
    /\ initFailed' = st.failed
    /\ initVoices' = st.voices
    /\ availableLanguages' = st.langs
    /\ listening' = st.listening

\* useEffect(() => { setDevices(MOCK_DEVICES); initTts(); }, []): the list is
\* seeded and initTts runs up to its first await
MountFrom(st) ==
    /\ mounted' = TRUE
    /\ devices' = MOCK_DEVICES
    /\ \E addEventListenerThrowsAt \in 0..Len(ListenerEvents) :
          InitAssign(InitCallGetInitStatus(st, addEventListenerThrowsAt))
    /\ UNCHANGED <<connectedDevice, isScanning, scanQ, prompts, last, nScans, nForce>>
    /\ UNCHANGED <<ActiveTts, isSpeaking, vietnamesePhrases, calls, timers,
                   utterances, engineCalls, spoken, lastDispatch, lastSpeak, nSpeaks>>
    /\ UNCHANGED <<phraseVars, appVars, throwing, langCalls, nLang>>

\* the hook is mounted by a collaborator that has no effect of its own
Mount ==
    /\ ~mounted
    /\ MountFrom(InitState)

\* the screen is mounted: the effect of the hook runs (initTts up to its first
\* await), then the effect of the screen, useEffect(() => { ... await
\* getAvailableLanguages() ... }, [devices]) (with the mock engine
\* getAvailableLanguages sets the list and returns), then initTts goes on.  The effect of
\* the screen runs again after every change of the device list; with the mock
\* engine it sets the list it has already set, so the later runs change nothing.
SessionMount ==
    /\ ~mounted
    /\ ActiveTts = "MockTts"
    /\ MountFrom([InitState EXCEPT !.langs = <<"vi-VN", "en-US">>])

(***************************************************************************)
(* scanForDevices                                                          *)
(***************************************************************************)
\* a scan that forgets the baseline devices
ScanResultWithoutBaseline(n, draw) ==
    [k \in 1..n |-> Device(additionalNames[k], generateRandomId(draw[2 * k - 1]),
                           generateRandomId(draw[2 * k]), FALSE)]

\* the list a scan builds: the baseline devices, then the first n entries of the
\* candidate array (n = 0 when Math.random() <= 0.5), with the ids drawn for them
ScanResult(n, draw) ==
    MOCK_DEVICES \o
    [k \in 1..n |-> Device(additionalNames[k], generateRandomId(draw[2 * k - 1]),
                           generateRandomId(draw[2 * k]), FALSE)]

ScanOutcomes == { ScanResult(n, draw) : n \in 0..3, draw \in RandomDraws }

\* catch (error) { setDevices(MOCK_DEVICES) }: the list after a scan that threw
ScanFallback == MOCK_DEVICES

\* a scan that adds what it found to the list
ListAfterScanAppended(prev, list) == prev \o list

\* setDevices(randomDevices): the list a scan found replaces the list
ListAfterScan(prev, list) == list

ForceWaiting == Cardinality({ i \in DOMAIN scanQ : scanQ[i].owner = "force" })

\* one more alert can be opened: each pending openBluetoothSettings call and
\* each forceConnectToDevice waiting for its scan may still open one
AlertRoom == Len(screenAlerts) + linking + ForceWaiting < MaxAlerts

\* one more call of openBluetoothSettings can be started
LinkingRoom == AlertRoom /\ linking < MaxLinking

\* the call: setIsScanning(true), then the await of the 1500 ms timer
ScanForDevices ==
    /\ nScans < MaxScans
    /\ nScans' = nScans + 1
    /\ isScanning' = TRUE
    /\ scanQ' = Append(scanQ, [owner |-> "user", query |-> <<>>, captured |-> <<>>])
    /\ UNCHANGED <<mounted, devices, connectedDevice, prompts, last, nForce>>
    /\ UNCHANGED ttsVars
    /\ UNCHANGED extVars

(***************************************************************************)
(* connectToDevice, and the buttons of its alert                           *)
(***************************************************************************)
\* the OK handler's setDevices(prev => prev.map(...))
MarkConnected(devs, id) ==
    [i \in DOMAIN devs |->
        IF devs[i].id = id THEN [devs[i] EXCEPT !.connected = TRUE] ELSE devs[i]]

\* the call opens the alert and returns true; nothing is connected yet
ConnectToDevice ==
    /\ Len(prompts) + ForceWaiting < MaxPrompts
    /\ \E i \in DOMAIN devices :
          /\ prompts' = Append(prompts, devices[i])
          /\ last' = [NoOp EXCEPT !.op = "connect", !.result = TRUE,
                               !.alert = "System Connection Required"]
    /\ UNCHANGED <<mounted, devices, connectedDevice, isScanning, scanQ, nScans, nForce>>
    /\ UNCHANGED ttsVars
    /\ UNCHANGED extVars

RemoveAt(s, i) == SubSeq(s, 1, i - 1) \o SubSeq(s, i + 1, Len(s))

\* a confirmation that stores the device as the alert captured it
ConfirmedAsCaptured(device) == device

\* setConnectedDevice({ ...device, connected: true })
Confirmed(device) == [device EXCEPT !.connected = TRUE]

\* "OK" pressed on an open alert
ConfirmOK ==
    /\ mounted
    /\ \E i \in DOMAIN prompts :
          LET device == prompts[i] IN
          /\ connectedDevice' = Confirmed(device)
          /\ devices' = MarkConnected(devices, device.id)
          /\ prompts' = RemoveAt(prompts, i)
          /\ last' = [NoOp EXCEPT !.op = "confirm", !.result = TRUE, !.target = device]
    /\ UNCHANGED <<mounted, isScanning, scanQ, nScans, nForce>>
    /\ UNCHANGED ttsVars
    /\ UNCHANGED extVars

\* "Open Bluetooth Settings" pressed on an open alert: the alert closes and
\* openBluetoothSettings runs up to its await of Linking (sendIntent,
\* openSettings or openURL, on Android and iOS); it touches no session state
PromptOpenSettings ==
    /\ mounted
    /\ LinkingRoom
    /\ \E i \in DOMAIN prompts :
          /\ prompts' = RemoveAt(prompts, i)
          /\ last' = [NoOp EXCEPT !.op = "openSettings"]
    /\ linking' = linking + 1
    /\ UNCHANGED screenAlerts
    /\ UNCHANGED <<mounted, devices, connectedDevice, isScanning, scanQ, nScans, nForce>>
    /\ UNCHANGED ttsVars
    /\ UNCHANGED <<phraseVars, engVars, payVars>>

(***************************************************************************)
(* disconnectDevice                                                        *)
(***************************************************************************)
\* a disconnect that forgets the list
ClearConnectedKeepsFlags(devs) == devs

\* setDevices(prev => prev.map(d => ({...d, connected: false})))
ClearConnected(devs) == [i \in DOMAIN devs |-> [devs[i] EXCEPT !.connected = FALSE]]

\* last.result records whether the call got past `if (!connectedDevice) return`
DisconnectDevice ==
    /\ IF connectedDevice = None
       THEN UNCHANGED <<connectedDevice, devices>>
       ELSE /\ connectedDevice' = None
            /\ devices' = ClearConnected(devices)
    /\ last' = [NoOp EXCEPT !.op = "disconnect", !.result = (connectedDevice # None),
                             !.alert = IF connectedDevice = None THEN "none"
                                       ELSE "Device Disconnected"]
    /\ UNCHANGED <<mounted, isScanning, scanQ, prompts, nScans, nForce>>
    /\ UNCHANGED ttsVars
    /\ UNCHANGED extVars

(***************************************************************************)
(* forceConnectToDevice                                                    *)
(***************************************************************************)
\* the list that the second devices.find (after the await of scanForDevices)
\* reads: `devices` of the render the call was made in
ListSearchedAfterScan(captured, current) == captured

\* everything after the scan (or after the first find, when no scan is made):
\* captured = `devices` as the call reads it, idx = the find's result,
\* cur = the list setDevices(prev => ...) acts on, rid/raddr = the generated ids
ForceTail(captured, q, idx, cur, rid, raddr) ==
    IF idx # 0
    THEN [devices |-> cur, prompt |-> captured[idx], result |-> TRUE, synth |-> FALSE,
          alert |-> "System Connection Required"]
    ELSE IF Len(captured) = 0
    THEN [devices |-> cur, prompt |-> None, result |-> FALSE, synth |-> FALSE,
          alert |-> "No Devices Found"]
    ELSE IF q # <<>>
    THEN [devices |-> Append(cur, Device(q, rid, raddr, FALSE)),
          prompt |-> Device(q, rid, raddr, FALSE), result |-> TRUE, synth |-> TRUE,
          alert |-> "System Connection Required"]
    ELSE [devices |-> cur, prompt |-> None, result |-> FALSE, synth |-> FALSE,
          alert |-> "none"]

\* Alert.alert("No Devices Found", ..., [Open Bluetooth Settings, OK]) of
\* forceConnectToDevice
ForceNoDevicesAlert == [title |-> "No Devices Found",
                        buttons |-> <<"Open Bluetooth Settings", "OK">>, list |-> <<>>]

\* what the call leaves behind when it returns
ForceReturn(t, q, scanned, list) ==
    /\ devices' = t.devices
    /\ screenAlerts' = IF t.alert = "No Devices Found"
                       THEN Append(screenAlerts, ForceNoDevicesAlert)
                       ELSE screenAlerts
    /\ prompts' = IF t.prompt = None THEN prompts ELSE Append(prompts, t.prompt)
    /\ last' = [op |-> "forceConnect", query |-> q, result |-> t.result,
                target |-> t.prompt, synth |-> t.synth, scanned |-> scanned,
                found |-> LET i == FindIndex(list, q) IN IF i = 0 THEN None ELSE list[i],
                alert |-> t.alert]

\* the call, up to its return or up to the await of scanForDevices
ForceConnectToDevice ==
    /\ nForce < MaxForce
    /\ Len(prompts) + ForceWaiting < MaxPrompts
    /\ Len(devices) = 0 => AlertRoom
    /\ nForce' = nForce + 1
    /\ \E q \in Queries :
          LET idx == FindIndex(devices, q) IN
          IF idx = 0 /\ q # <<>>
          THEN /\ isScanning' = TRUE
               /\ scanQ' = Append(scanQ, [owner |-> "force", query |-> q,
                                           captured |-> devices])
               /\ UNCHANGED <<devices, prompts, last, screenAlerts>>
          ELSE /\ \E d \in PlaceholderDigits :
                    ForceReturn(ForceTail(devices, q, idx, devices,
                                          generateRandomId(d[1]), generateRandomId(d[2])),
                                q, FALSE, <<>>)
               /\ UNCHANGED <<isScanning, scanQ>>
    /\ UNCHANGED <<mounted, connectedDevice, nScans>>
    /\ UNCHANGED ttsVars
    /\ UNCHANGED <<phraseVars, engVars, payVars, linking>>

\* the 1500 ms timer of the oldest waiting scan fires: the list is built and
\* set, isScanning is cleared, and a forceConnectToDevice awaiting it resumes
ScanDone ==
    /\ mounted
    /\ scanQ # <<>>
    /\ scanQ' = Tail(scanQ)
    /\ isScanning' = FALSE
    /\ \E list \in ScanOutcomes \cup {ScanFallback} :
          LET call == Head(scanQ) IN
          IF call.owner = "user"
          THEN /\ devices' = ListAfterScan(devices, list)
               /\ last' = [NoOp EXCEPT !.op = "scan"]
               /\ UNCHANGED <<prompts, screenAlerts>>
          ELSE \E searched \in { ListSearchedAfterScan(call.captured, list) } :
               \E idx \in { FindIndex(searched, call.query) } :
               \E d \in PlaceholderDigits :
               \E t \in { ForceTail(searched, call.query, idx,
                                     ListAfterScan(devices, list),
                                     generateRandomId(d[1]), generateRandomId(d[2])) } :
                     ForceReturn(t, call.query, TRUE, list)
    /\ UNCHANGED <<mounted, connectedDevice, nScans, nForce>>
    /\ UNCHANGED ttsVars
    /\ UNCHANGED <<phraseVars, engVars, payVars, linking>>

(***************************************************************************)
(* checkSystemConnection, handleConnectByButton of the screen, and the     *)
(* buttons of the alerts they open                                         *)
(***************************************************************************)
\* the state of the session that the hook hands to its callers
Session == [devices |-> devices, connectedDevice |-> connectedDevice,
            isScanning |-> isScanning, isSpeaking |-> isSpeaking,
            vietnamesePhrases |-> vietnamesePhrases,
            availableLanguages |-> availableLanguages]

\* Alert.alert("Check Connection in Settings", ..., [Cancel, Open Bluetooth Settings])
CheckAlert == [title |-> "Check Connection in Settings",
               buttons |-> <<"Cancel", "Open Bluetooth Settings">>, list |-> <<>>]

\* a check that drops the connection it cannot verify
SessionAfterCheckDisconnected(session) == [session EXCEPT !.connectedDevice = None]

\* the session after checkSystemConnection: the function calls no setter
SessionAfterCheck(session) == session

\* the call: the alert is opened, the session is as it was
CheckSystemConnection ==
    /\ AlertRoom
    /\ screenAlerts' = Append(screenAlerts, CheckAlert)
    /\ \E after \in { SessionAfterCheck(Session) } :
          /\ devices' = after.devices
          /\ connectedDevice' = after.connectedDevice
          /\ isScanning' = after.isScanning
          /\ isSpeaking' = after.isSpeaking
          /\ vietnamesePhrases' = after.vietnamesePhrases
          /\ availableLanguages' = after.availableLanguages
    /\ last' = [NoOp EXCEPT !.op = "checkSystemConnection",
                        !.alert = "Check Connection in Settings"]
    /\ UNCHANGED <<mounted, scanQ, prompts, nScans, nForce>>
    /\ UNCHANGED <<ActiveTts, initPc, listening, calls, timers, utterances, engineCalls,
                   spoken, lastDispatch, lastSpeak, nSpeaks>>
    /\ UNCHANGED <<phraseVars, throwing, initCalled, initFailed, initVoices, langCalls, nLang>>
    /\ UNCHANGED <<payVars, linking>>

\* a button flow that never looks at the length of the list
ListEmptyIgnored(devs) == FALSE

\* if (devices.length === 0)
ListEmpty(devs) == Len(devs) = 0

\* the alert of handleConnectByButton for an empty list
NoDevicesAlert == [title |-> "No Devices Found",
                   buttons |-> <<"Scan for Devices", "Open Bluetooth Settings", "Cancel">>,
                   list |-> <<>>]

\* the alert of handleConnectByButton for a list of two or more: one button for
\* each device of the list, and Cancel
SelectAlert(devs) == [title |-> "Select a Speaker", buttons |-> <<"Cancel">>, list |-> devs]

\* the "Connect" button of the screen: handleConnectByButton, up to its return
\* (connectToDevice resolves as soon as its alert is open)
HandleConnectByButton ==
    /\ IF ListEmpty(devices)
       THEN /\ AlertRoom
            /\ screenAlerts' = Append(screenAlerts, NoDevicesAlert)
            /\ last' = [NoOp EXCEPT !.op = "connectByButton", !.alert = "No Devices Found"]
            /\ UNCHANGED prompts
       ELSE IF Len(devices) = 1
       THEN /\ Len(prompts) + ForceWaiting < MaxPrompts
            /\ prompts' = Append(prompts, devices[1])
            /\ last' = [NoOp EXCEPT !.op = "connect", !.result = TRUE,
                               !.alert = "System Connection Required"]
            /\ UNCHANGED screenAlerts
       ELSE /\ AlertRoom
            /\ screenAlerts' = Append(screenAlerts, SelectAlert(devices))
            /\ last' = [NoOp EXCEPT !.op = "connectByButton", !.alert = "Select a Speaker"]
            /\ UNCHANGED prompts
    /\ UNCHANGED <<mounted, devices, connectedDevice, isScanning, scanQ, nScans, nForce>>
    /\ UNCHANGED ttsVars
    /\ UNCHANGED <<phraseVars, engVars, payVars, linking>>

HasButton(alert, text) == \E i \in DOMAIN alert.buttons : alert.buttons[i] = text

\* "Cancel" or "OK" pressed on an open alert: the alert closes
AlertDismiss ==
    /\ \E i \in DOMAIN screenAlerts :
          /\ HasButton(screenAlerts[i], "Cancel") \/ HasButton(screenAlerts[i], "OK")
          /\ screenAlerts' = RemoveAt(screenAlerts, i)
    /\ UNCHANGED devVars
    /\ UNCHANGED ttsVars
    /\ UNCHANGED <<phraseVars, engVars, payVars, linking>>

\* "Open Bluetooth Settings" pressed on an open alert: the alert closes and
\* openBluetoothSettings runs up to its await of Linking
AlertOpenSettings ==
    /\ \E i \in DOMAIN screenAlerts :
          /\ HasButton(screenAlerts[i], "Open Bluetooth Settings")
          /\ screenAlerts' = RemoveAt(screenAlerts, i)
    /\ linking < MaxLinking
    /\ linking' = linking + 1
    /\ last' = [NoOp EXCEPT !.op = "openSettings"]
    /\ UNCHANGED <<mounted, devices, connectedDevice, isScanning, scanQ, prompts, nScans, nForce>>
    /\ UNCHANGED ttsVars
    /\ UNCHANGED <<phraseVars, engVars, payVars>>

\* openBluetoothSettings of the hook called by a collaborator, up to its await
\* of Linking
OpenBluetoothSettings ==
    /\ LinkingRoom
    /\ linking' = linking + 1
    /\ last' = [NoOp EXCEPT !.op = "openSettings"]
    /\ UNCHANGED screenAlerts
    /\ UNCHANGED <<mounted, devices, connectedDevice, isScanning, scanQ, prompts, nScans, nForce>>
    /\ UNCHANGED ttsVars
    /\ UNCHANGED <<phraseVars, engVars, payVars>>

\* the alert openBluetoothSettings ends with: Linking opened the settings, or threw
SettingsAlert(linkingThrows) ==
    [title |-> IF linkingThrows THEN "Error Opening Settings" ELSE "System Bluetooth Settings",
     buttons |-> <<"OK">>, list |-> <<>>]

\* the promise of Linking settles: openBluetoothSettings opens its alert, in
\* the try or in the catch
LinkingSettles ==
    /\ linking > 0
    /\ linking' = linking - 1
    /\ \E linkingThrows \in BOOLEAN :
          /\ screenAlerts' = Append(screenAlerts, SettingsAlert(linkingThrows))
          /\ last' = [NoOp EXCEPT !.op = "openSettings",
                                  !.alert = SettingsAlert(linkingThrows).title]
    /\ UNCHANGED <<mounted, devices, connectedDevice, isScanning, scanQ, prompts, nScans, nForce>>
    /\ UNCHANGED ttsVars
    /\ UNCHANGED <<phraseVars, engVars, payVars>>

\* "Scan for Devices" pressed on the alert for an empty list: scanForDevices()
AlertScan ==
    /\ \E i \in DOMAIN screenAlerts :
          /\ HasButton(screenAlerts[i], "Scan for Devices")
          /\ screenAlerts' = RemoveAt(screenAlerts, i)
    /\ nScans < MaxScans
    /\ nScans' = nScans + 1
    /\ isScanning' = TRUE
    /\ scanQ' = Append(scanQ, [owner |-> "user", query |-> <<>>, captured |-> <<>>])
    /\ UNCHANGED <<mounted, devices, connectedDevice, prompts, last, nForce>>
    /\ UNCHANGED ttsVars
    /\ UNCHANGED <<phraseVars, engVars, payVars, linking>>

\* a device's button pressed on "Select a Speaker": connectToDevice(device), with
\* the device of the list the alert was built from
AlertSelect ==
    /\ Len(prompts) + ForceWaiting < MaxPrompts
    /\ \E i \in DOMAIN screenAlerts :
          /\ screenAlerts[i].title = "Select a Speaker"
          /\ \E j \in DOMAIN screenAlerts[i].list :
                prompts' = Append(prompts, screenAlerts[i].list[j])
          /\ screenAlerts' = RemoveAt(screenAlerts, i)
    /\ last' = [NoOp EXCEPT !.op = "connect", !.result = TRUE,
                               !.alert = "System Connection Required"]
    /\ UNCHANGED <<mounted, devices, connectedDevice, isScanning, scanQ, nScans, nForce>>
    /\ UNCHANGED ttsVars
    /\ UNCHANGED <<phraseVars, engVars, payVars, linking>>

(***************************************************************************)
(* initTts, as far as the speaking flag depends on it                      *)
(***************************************************************************)
\* getInitStatus() settled, either way (a rejection is swallowed): with the
\* native engine the four listeners are registered, unless addEventListener
\* throws; initTts goes on to the voice query
InitTtsListeners ==
    /\ initPc = "getInitStatus"
    /\ \E addEventListenerThrowsAt \in 0..Len(ListenerEvents) :
          InitAssign(InitCallVoices(InitState, addEventListenerThrowsAt))
    /\ UNCHANGED devVars
    /\ UNCHANGED <<ActiveTts, isSpeaking, vietnamesePhrases, calls, timers, utterances,
                   engineCalls, spoken, lastDispatch, lastSpeak, nSpeaks>>
    /\ UNCHANGED <<phraseVars, appVars, throwing, langCalls, nLang>>

\* the voices() of initTts answers or rejects: the result is only logged, and
\* initTts goes on to the language, unless the timeout had resolved the query
InitVoicesAnswer ==
    /\ initVoices.engine = "pending"
    /\ \E a \in EngineVoiceAnswers, rejected \in BOOLEAN :
          LET q == IF rejected THEN QueryRejected(initVoices) ELSE QueryAnswered(initVoices, a)
              st == [InitState EXCEPT !.voices = q]
          IN  InitAssign(IF initVoices.by = "none" THEN InitCallLanguage(st) ELSE st)
    /\ UNCHANGED devVars
    /\ UNCHANGED <<ActiveTts, isSpeaking, vietnamesePhrases, calls, timers, utterances,
                   engineCalls, spoken, lastDispatch, lastSpeak, nSpeaks>>
    /\ UNCHANGED <<phraseVars, appVars, throwing, langCalls, nLang>>

\* the 3000 ms timer of initTts's voice query fires
InitVoicesTimeout ==
    /\ initVoices.timer = "armed"
    /\ LET st == [InitState EXCEPT !.voices = QueryTimedOut(initVoices)]
       IN  InitAssign(IF initVoices.by = "none" /\ st.voices.by # "none"
                      THEN InitCallLanguage(st) ELSE st)
    /\ UNCHANGED devVars
    /\ UNCHANGED <<ActiveTts, isSpeaking, vietnamesePhrases, calls, timers, utterances,
                   engineCalls, spoken, lastDispatch, lastSpeak, nSpeaks>>
    /\ UNCHANGED <<phraseVars, appVars, throwing, langCalls, nLang>>

\* the promise of setDefaultLanguage / setDefaultRate / setDefaultPitch settles; a
\* rejection is swallowed by its .catch
InitSettles ==
    /\ initPc \in {"setDefaultLanguage", "setDefaultRate", "setDefaultPitch"}
    /\ \E rejected \in BOOLEAN :
          LET st == IF rejected THEN [InitState EXCEPT !.failed = @ \cup {initPc}]
                    ELSE InitState
          IN  InitAssign(CASE initPc = "setDefaultLanguage" -> InitCallRate(st)
                           [] initPc = "setDefaultRate" -> InitCallPitch(st)
                           [] initPc = "setDefaultPitch" -> InitFinish(st))
    /\ UNCHANGED devVars
    /\ UNCHANGED <<ActiveTts, isSpeaking, vietnamesePhrases, calls, timers, utterances,
                   engineCalls, spoken, lastDispatch, lastSpeak, nSpeaks>>
    /\ UNCHANGED <<phraseVars, appVars, throwing, langCalls, nLang>>

\* the promise initTts awaits is one the native engine never settles: nothing
\* bounds the wait, except in the voice query
InitNeverSettles ==
    /\ initPc \in {"getInitStatus", "setDefaultLanguage", "setDefaultRate", "setDefaultPitch"}
    /\ initPc' = "hung"
    /\ UNCHANGED devVars
    /\ UNCHANGED <<ActiveTts, listening, isSpeaking, vietnamesePhrases, calls, timers,
                   utterances, engineCalls, spoken, lastDispatch, lastSpeak, nSpeaks>>
    /\ UNCHANGED <<phraseVars, appVars, throwing, availableLanguages, initCalled, initFailed,
                   initVoices, langCalls, nLang>>

(***************************************************************************)
(* getAvailableLanguages                                                   *)
(***************************************************************************)
HasLanguage(voice) == voice.language # ""

RECURSIVE LanguageTags(_)
\* voices.filter(v => v && v.language).map(v => v.language)
LanguageTags(voices) ==
    IF voices = <<>> THEN <<>>
    ELSE IF HasLanguage(Head(voices))
    THEN <<Head(voices).language>> \o LanguageTags(Tail(voices))
    ELSE LanguageTags(Tail(voices))

RECURSIVE UniqueTags(_)
\* [...new Set(languages)]: the first occurrence of each tag, in order
UniqueTags(tags) ==
    IF tags = <<>> THEN <<>>
    ELSE LET front == UniqueTags(SubSeq(tags, 1, Len(tags) - 1))
             tag == tags[Len(tags)]
         IN  IF \E i \in DOMAIN front : front[i] = tag THEN front ELSE Append(front, tag)

\* what getAvailableLanguages returns for a resolved voice query; a result that
\* is not an array makes voices.filter throw, and the outer catch answers
LanguagesOf(q) ==
    IF ~q.array THEN <<"vi-VN", "en-US">>
    ELSE AddVietnamese(UniqueTags(LanguageTags(q.result)))

\* the call ends: setAvailableLanguages(list); return list
LangReturn(i, q) ==
    /\ availableLanguages' = LanguagesOf(q)
    /\ langCalls' = [langCalls EXCEPT ![i] = [pc |-> "done", query |-> q,
                                              returned |-> LanguagesOf(q)]]

\* the call, up to its return or up to the await of the voice query
GetAvailableLanguages ==
    /\ nLang < MaxLangCalls
    /\ nLang' = nLang + 1
    /\ IF ActiveTts = "MockTts"
       THEN /\ availableLanguages' = <<"vi-VN", "en-US">>
            /\ langCalls' = Append(langCalls, [pc |-> "done", query |-> NoQuery,
                                               returned |-> <<"vi-VN", "en-US">>])
       ELSE IF Throws("voices")
       THEN /\ availableLanguages' = LanguagesOf(QueryThrew)
            /\ langCalls' = Append(langCalls, [pc |-> "done", query |-> QueryThrew,
                                               returned |-> LanguagesOf(QueryThrew)])
       ELSE /\ langCalls' = Append(langCalls, [pc |-> "voices", query |-> QueryPending,
                                               returned |-> <<>>])
            /\ UNCHANGED availableLanguages
    /\ UNCHANGED devVars
    /\ UNCHANGED ttsVars
    /\ UNCHANGED <<phraseVars, appVars, throwing, initCalled, initFailed, initVoices>>

\* the voices() of a getAvailableLanguages call answers or rejects
LangVoicesAnswer ==
    /\ \E i \in DOMAIN langCalls :
          /\ langCalls[i].query.engine = "pending"
          /\ \E a \in EngineVoiceAnswers, rejected \in BOOLEAN :
                LET q == IF rejected THEN QueryRejected(langCalls[i].query)
                         ELSE QueryAnswered(langCalls[i].query, a)
                IN  IF langCalls[i].pc = "voices"
                    THEN LangReturn(i, q)
                    ELSE /\ langCalls' = [langCalls EXCEPT ![i].query = q]
                         /\ UNCHANGED availableLanguages
    /\ UNCHANGED devVars
    /\ UNCHANGED ttsVars
    /\ UNCHANGED <<phraseVars, appVars, throwing, initCalled, initFailed, initVoices, nLang>>

\* the 3000 ms timer of a getAvailableLanguages call fires
LangVoicesTimeout ==
    /\ \E i \in DOMAIN langCalls :
          /\ langCalls[i].query.timer = "armed"
          /\ LET q == QueryTimedOut(langCalls[i].query) IN
             IF langCalls[i].pc = "voices" /\ q.by # "none"
             THEN LangReturn(i, q)
             ELSE /\ langCalls' = [langCalls EXCEPT ![i].query = q]
                  /\ UNCHANGED availableLanguages
    /\ UNCHANGED devVars
    /\ UNCHANGED ttsVars
    /\ UNCHANGED <<phraseVars, appVars, throwing, initCalled, initFailed, initVoices, nLang>>

(***************************************************************************)
(* The phrase dictionary: setCustomVietnamesePhrase, and handleAddPhrase   *)
(* of the screen that calls it                                             *)
(***************************************************************************)
Digits == <<"0","1","2","3","4","5","6","7","8","9">>

IsDigit(c) == \E i \in DOMAIN Digits : Digits[i] = c

DigitValue(c) == (CHOOSE i \in DOMAIN Digits : Digits[i] = c) - 1

\* a < b for two digit strings of the same length
DigitsLess(a, b) ==
    \E i \in DOMAIN a :
        /\ DigitValue(a[i]) < DigitValue(b[i])
        /\ \A j \in 1..(i - 1) : a[j] = b[j]

\* 2^32 - 1: an array index is a canonical numeric string below it
ArrayIndexLimit == <<"4","2","9","4","9","6","7","2","9","5">>

\* the property keys an object keeps in ascending numeric order, before every
\* other key: the canonical decimal strings of the integers 0 .. 2^32 - 2
IsArrayIndex(k) ==
    /\ Len(k) >= 1
    /\ \A i \in DOMAIN k : IsDigit(k[i])
    /\ Len(k) = 1 \/ k[1] # "0"
    /\ Len(k) < 10 \/ (Len(k) = 10 /\ DigitsLess(k, ArrayIndexLimit))

\* numeric order of two array-index keys
IndexLess(a, b) == Len(a) < Len(b) \/ (Len(a) = Len(b) /\ DigitsLess(a, b))

HasKey(dict, key) == \E i \in DOMAIN dict : dict[i][1] = key

\* dict[key]
ValueOf(dict, key) == dict[CHOOSE i \in DOMAIN dict : dict[i][1] = key][2]

\* an addition that never looks for the key
PutPhraseAppends(dict, key, value) == Append(dict, <<key, value>>)

\* { ...dict, [key]: value }, as Object.entries lists the result: an existing
\* key keeps its place, a new array-index key goes among the array-index keys
\* in numeric order, any other new key goes last
PutPhrase(dict, key, value) ==
    IF HasKey(dict, key)
    THEN [i \in DOMAIN dict |-> IF dict[i][1] = key THEN <<key, value>> ELSE dict[i]]
    ELSE IF IsArrayIndex(key)
    THEN LET n == Cardinality({ i \in DOMAIN dict :
                                  IsArrayIndex(dict[i][1]) /\ IndexLess(dict[i][1], key) })
         IN  SubSeq(dict, 1, n) \o << <<key, value>> >> \o SubSeq(dict, n + 1, Len(dict))
    ELSE Append(dict, <<key, value>>)

\* WhiteSpace and LineTerminator of ECMAScript: TAB, LF, VT, FF, CR, SP, NBSP,
\* the characters of category Zs, LS, PS and ZWNBSP
WhiteSpace ==
    { "\t", "\n", "u000B", "\f", "\r", " ", "u00A0", "u1680",
      "u2000", "u2001", "u2002", "u2003", "u2004", "u2005", "u2006", "u2007", "u2008",
      "u2009", "u200A", "u2028", "u2029", "u202F", "u205F", "u3000", "uFEFF" }

RECURSIVE TrimStart(_)
TrimStart(s) == IF s # <<>> /\ Head(s) \in WhiteSpace THEN TrimStart(Tail(s)) ELSE s

RECURSIVE TrimEnd(_)
TrimEnd(s) ==
    IF s # <<>> /\ s[Len(s)] \in WhiteSpace THEN TrimEnd(SubSeq(s, 1, Len(s) - 1)) ELSE s

\* String.prototype.trim
Trim(s) == TrimEnd(TrimStart(s))

\* the arguments the model passes as the English phrase and as its translation
EnglishInputs ==
    { <<>>,                        \* empty
      <<" ">>,                     \* blank
      <<"H","E","L","L","O">>,     \* a default key, in another case
      <<"V","N","D">>,             \* a new key
      <<"5","0">>,                 \* a new key that is an array index
      <<"5">> }                    \* a smaller array index, contained in the other

VietnameseInputs == { <<>>, <<" ">>, <<"X","i","n">>, <<"V","u","i">> }

\* a check that looks at the translation only
PhraseMissingOnlyTranslation(english, vietnamese) == vietnamese = <<>>

\* if (!english || !vietnamese)
PhraseMissing(english, vietnamese) == english = <<>> \/ vietnamese = <<>>

\* the body of setCustomVietnamesePhrase(english, vietnamese)
setCustomVietnamesePhrase(english, vietnamese) ==
    IF PhraseMissing(english, vietnamese)
    THEN /\ phraseAlert' = "Input Error"
         /\ UNCHANGED <<vietnamesePhrases, firstInserted>>
    ELSE LET key == ToLowerCase(english) IN
         /\ vietnamesePhrases' = PutPhrase(vietnamesePhrases, key, vietnamese)
         /\ firstInserted' = IF HasKey(vietnamesePhrases, key) THEN firstInserted
                              ELSE Append(firstInserted, key)
         /\ phraseAlert' = "Phrase Added"

\* the phrases of the round trips: one that contains a default key ("hello"),
\* one that is a default key in another letter case, and a new one
RoundTripPhrases ==
    { <<"H","e","l","l","o"," ","W","o","r","l","d">>,
      <<"T","h","a","n","k"," ","Y","o","u">>,
      <<"V","N","D">> }

RoundTripTranslations == { <<"X","i","n">>, <<"V","u","i">> }

\* a collaborator calls setCustomVietnamesePhrase of the hook, with arguments
\* drawn from the given sets
AddPhraseOf(englishes, vietnameses) ==
    /\ nPhrases' = nPhrases + 1
    /\ \E english \in englishes, vietnamese \in vietnameses :
          /\ setCustomVietnamesePhrase(english, vietnamese)
          /\ lastPhrase' = [english |-> english, vietnamese |-> vietnamese, via |-> "hook",
                            held |-> IF HasKey(vietnamesePhrases, ToLowerCase(english))
                                     THEN ValueOf(vietnamesePhrases, ToLowerCase(english))
                                     ELSE <<>>]
    /\ UNCHANGED devVars
    /\ UNCHANGED <<ActiveTts, initPc, listening, isSpeaking, calls, timers, utterances,
                   engineCalls, spoken, lastDispatch, lastSpeak, nSpeaks>>
    /\ UNCHANGED <<engVars, appVars>>

AddPhrase ==
    /\ nPhrases < MaxPhrases
    /\ AddPhraseOf(EnglishInputs, VietnameseInputs)

\* the same call with the phrases of the round trips
AddRoundTripPhrase ==
    /\ nPhrases < MaxPhrases
    /\ AddPhraseOf(RoundTripPhrases, RoundTripTranslations)

\* the "Add Phrase" button of the screen: handleAddPhrase
HandleAddPhrase ==
    /\ mounted
    /\ nPhrases < MaxPhrases
    /\ nPhrases' = nPhrases + 1
    /\ \E englishPhrase \in EnglishInputs, vietnamesePhrase \in VietnameseInputs :
          /\ IF Trim(englishPhrase) = <<>> \/ Trim(vietnamesePhrase) = <<>>
             THEN /\ phraseAlert' = "Missing Information"
                  /\ UNCHANGED <<vietnamesePhrases, firstInserted>>
             ELSE setCustomVietnamesePhrase(englishPhrase, vietnamesePhrase)
          /\ lastPhrase' = [english |-> englishPhrase, vietnamese |-> vietnamesePhrase,
                            via |-> "screen",
                            held |-> IF HasKey(vietnamesePhrases, ToLowerCase(englishPhrase))
                                     THEN ValueOf(vietnamesePhrases, ToLowerCase(englishPhrase))
                                     ELSE <<>>]
    /\ UNCHANGED devVars
    /\ UNCHANGED <<ActiveTts, initPc, listening, isSpeaking, calls, timers, utterances,
                   engineCalls, spoken, lastDispatch, lastSpeak, nSpeaks>>
    /\ UNCHANGED <<engVars, appVars>>

(***************************************************************************)
(* speak                                                                   *)
(***************************************************************************)
\* the messages the model passes to speak
Messages ==
    { <<"H","e","l","l","o"," ","5","0">>,
      <<"Y","o","u"," ","h","a","v","e"," ","r","e","c","e","i","v","e","d"," ",
        "5","0",",","0","0","0"," ","V","N","D"," ","f","r","o","m"," ",
        "D","e","m","o"," ","U","s","e","r">>,
      <<"I"," ","s","a","i","d"," ","t","h","a","n","k"," ","y","o","u"," ",
        "t","o","d","a","y">> }

\* a translation loop that matches against the message as it came
TranslateWithoutLowerCase(dict, message) ==
    LET hits == { i \in DOMAIN dict : Includes(message, dict[i][1]) }
    IN  IF hits = {} THEN message
        ELSE dict[CHOOSE i \in hits : \A j \in hits : i <= j][2]

\* the translation loop: the value of the first entry whose key lowerMsg includes
Translate(dict, message) ==
    LET lowerMsg == ToLowerCase(message)
        hits == { i \in DOMAIN dict : Includes(lowerMsg, dict[i][1]) }
    IN  IF hits = {} THEN message
        ELSE dict[CHOOSE i \in hits : \A j \in hits : i <= j][2]

\* if (!connectedDevice)
DeviceMissing(cd) == cd = None

\* the catch blocks of speak: setIsSpeaking(false)
FlagAfterSpeakError(flag) == FALSE

\* setTimeout(() => setIsSpeaking(false), 1000)
FlagAfterSettle(flag) == FALSE

\* what the promise of speak does after an engine failure: both catch blocks end
\* without rethrowing, so the async function resolves
SpeakPromise(failed) == "resolved"

\* the engine is still busy with an utterance
InFlight(utt) == \E i \in DOMAIN utt : utt[i].st \in {"queued", "started"}

\* TextToSpeech.stop() taking effect: everything the engine holds is cancelled
Flush(utt) == [i \in DOMAIN utt |-> [utt[i] EXCEPT !.st = "cancelled"]]

Returned(id, failed) ==
    [id |-> id, alert |-> IF failed THEN "TTS Error" ELSE "none",
     promise |-> SpeakPromise(failed), failed |-> failed]

\* speak from the translation on: setIsSpeaking(true) and safeSpeak(textToSpeak),
\* up to the return or up to the await of the engine's promise.
\* utt = what the engine holds at that point, n = the engine calls made before.
\* MockTts.speak is a resolved promise: the call goes through to the timer.
Dispatch(id, message, stopRequested, utt, n) ==
    /\ engineCalls' = n + 1
    /\ spoken' = Translate(vietnamesePhrases, message)
    /\ lastDispatch' = [id |-> id, message |-> message, stopRequested |-> stopRequested,
                        inFlight |-> InFlight(utt)]
    /\ utterances' = utt
    /\ IF ResolvesAtOnce(ActiveTts)
       THEN /\ isSpeaking' = TRUE
            /\ timers' = Append(timers, id)
            /\ calls' = { c \in calls : c.id # id }
            /\ lastSpeak' = Returned(id, FALSE)
       ELSE \E speakThrows \in BOOLEAN :
              IF speakThrows
              THEN /\ isSpeaking' = FlagAfterSpeakError(TRUE)
                   /\ calls' = { c \in calls : c.id # id }
                   /\ lastSpeak' = Returned(id, TRUE)
                   /\ UNCHANGED timers
              ELSE /\ isSpeaking' = TRUE
                   /\ calls' = { c \in calls : c.id # id } \cup
                               { [id |-> id, pc |-> "speak", message |-> message] }
                   /\ UNCHANGED <<timers, lastSpeak>>

\* the call of speak(message), up to its return or its first await, with the
\* message drawn from the given set
SpeakOf(messages) ==
    /\ nSpeaks' = nSpeaks + 1
    /\ \E message \in messages :
         LET id == nSpeaks + 1 IN
         IF DeviceMissing(connectedDevice)
         THEN /\ lastSpeak' = [id |-> id, alert |-> "No Device Connected",
                               promise |-> "resolved", failed |-> FALSE]
              /\ UNCHANGED <<isSpeaking, calls, timers, utterances, engineCalls, spoken,
                             lastDispatch>>
         ELSE IF ~isSpeaking
         THEN Dispatch(id, message, FALSE, utterances, engineCalls)
         ELSE IF ResolvesAtOnce(ActiveTts)
         THEN Dispatch(id, message, TRUE, utterances, engineCalls + 1)
         ELSE \E stopThrows \in BOOLEAN :
                IF stopThrows
                THEN Dispatch(id, message, TRUE, utterances, engineCalls + 1)
                ELSE /\ calls' = calls \cup { [id |-> id, pc |-> "stop", message |-> message] }
                     /\ engineCalls' = engineCalls + 1
                     /\ UNCHANGED <<isSpeaking, timers, utterances, spoken, lastDispatch,
                                    lastSpeak>>
    /\ UNCHANGED devVars
    /\ UNCHANGED extVars
    /\ UNCHANGED <<ActiveTts, initPc, listening, vietnamesePhrases>>

Speak ==
    /\ nSpeaks < MaxSpeaks
    /\ SpeakOf(Messages)

\* speak, in the runs that follow the dictionary through two additions
SpeakWithDictionary ==
    /\ nSpeaks < MaxPhraseSpeaks
    /\ SpeakOf(Messages)

\* the phrases of the round trips, in several letter cases
PhraseMessages ==
    { <<"h","e","l","l","o"," ","w","o","r","l","d">>,
      <<"H","E","L","L","O"," ","W","O","R","L","D">>,
      <<"H","e","l","l","o"," ","W","o","r","l","d">>,
      <<"t","h","a","n","k"," ","y","o","u">>,
      <<"T","H","A","N","K"," ","Y","O","U">>,
      <<"v","n","d">>,
      <<"V","N","D">> }

\* speak is called with the phrase that was added last, in some letter case
SpeakAddedPhrase ==
    /\ nSpeaks < MaxSpeaks
    /\ phraseAlert = "Phrase Added"
    /\ SpeakOf({ m \in PhraseMessages : ToLowerCase(m) = ToLowerCase(lastPhrase.english) })

\* the promise of ActiveTts.stop() settles; a rejection is swallowed and the
\* call goes on to the dispatch either way
StopSettles ==
    /\ \E c \in calls :
         /\ c.pc = "stop"
         /\ \E stopped \in BOOLEAN :
              Dispatch(c.id, c.message, TRUE,
                       IF stopped THEN Flush(utterances) ELSE utterances, engineCalls)
    /\ UNCHANGED devVars
    /\ UNCHANGED extVars
    /\ UNCHANGED <<ActiveTts, initPc, listening, vietnamesePhrases, nSpeaks>>

\* the promise of ActiveTts.speak() settles: the engine took the utterance and the
\* settle timer is set, or the catch block runs
SpeakSettles ==
    /\ \E c \in calls :
         /\ c.pc = "speak"
         /\ calls' = calls \ {c}
         /\ \E accepted \in BOOLEAN :
              IF accepted
              THEN /\ utterances' = Append(utterances, [id |-> c.id, st |-> "queued"])
                   /\ timers' = Append(timers, c.id)
                   /\ lastSpeak' = Returned(c.id, FALSE)
                   /\ UNCHANGED isSpeaking
              ELSE /\ isSpeaking' = FlagAfterSpeakError(isSpeaking)
                   /\ lastSpeak' = Returned(c.id, TRUE)
                   /\ UNCHANGED <<utterances, timers>>
    /\ UNCHANGED devVars
    /\ UNCHANGED extVars
    /\ UNCHANGED <<ActiveTts, initPc, listening, vietnamesePhrases, engineCalls, spoken,
                   lastDispatch, nSpeaks>>

\* the promise a speak call awaits (ActiveTts.stop() or ActiveTts.speak()) is one
\* the native engine never settles: nothing bounds the wait, the call stays
\* where it is
SpeakNeverSettles ==
    /\ \E c \in calls :
         /\ c.pc \in {"stop", "speak"}
         /\ calls' = (calls \ {c}) \cup
                     { [c EXCEPT !.pc = IF c.pc = "stop" THEN "stop never settles"
                                        ELSE "speak never settles"] }
    /\ UNCHANGED devVars
    /\ UNCHANGED extVars
    /\ UNCHANGED <<ActiveTts, initPc, listening, isSpeaking, vietnamesePhrases, timers,
                   utterances, engineCalls, spoken, lastDispatch, lastSpeak, nSpeaks>>

\* the oldest settle timer fires
SettleTimer ==
    /\ timers # <<>>
    /\ timers' = Tail(timers)
    /\ isSpeaking' = FlagAfterSettle(isSpeaking)
    /\ UNCHANGED devVars
    /\ UNCHANGED extVars
    /\ UNCHANGED <<ActiveTts, initPc, listening, vietnamesePhrases, calls, utterances,
                   engineCalls, spoken, lastDispatch, lastSpeak, nSpeaks>>

(***************************************************************************)
(* The native engine's events.  An utterance the engine accepted is        *)
(* started at most once and ends with exactly one of tts-finish,           *)
(* tts-error and tts-cancel; the listeners of initTts set the flag.        *)
(***************************************************************************)
Heard(event, flag, value) == IF event \in listening THEN value ELSE flag

\* tts-start: the oldest waiting utterance begins to play
TtsStart ==
    /\ \E i \in DOMAIN utterances :
         /\ utterances[i].st = "queued"
         /\ \A j \in 1..(i - 1) : utterances[j].st = "cancelled"
         /\ utterances' = [utterances EXCEPT ![i].st = "started"]
    /\ isSpeaking' = Heard("tts-start", isSpeaking, TRUE)
    /\ UNCHANGED devVars
    /\ UNCHANGED extVars
    /\ UNCHANGED <<ActiveTts, initPc, listening, vietnamesePhrases, calls, timers,
                   engineCalls, spoken, lastDispatch, lastSpeak, nSpeaks>>

\* tts-finish (a playing utterance), tts-error (a waiting or playing one),
\* tts-cancel (one that stop() cancelled)
TtsEnd ==
    /\ \E i \in DOMAIN utterances, event \in {"tts-finish", "tts-error", "tts-cancel"} :
         /\ event = "tts-finish" => utterances[i].st = "started"
         /\ event = "tts-error" => utterances[i].st \in {"queued", "started"}
         /\ event = "tts-cancel" => utterances[i].st = "cancelled"
         /\ utterances' = RemoveAt(utterances, i)
         /\ isSpeaking' = Heard(event, isSpeaking, FALSE)
    /\ UNCHANGED devVars
    /\ UNCHANGED extVars
    /\ UNCHANGED <<ActiveTts, initPc, listening, vietnamesePhrases, calls, timers,
                   engineCalls, spoken, lastDispatch, lastSpeak, nSpeaks>>

(***************************************************************************)
(* useNotificationService.  The hook calls useBluetoothService() itself:   *)
(* the speak it uses belongs to a hook instance of its own, whose          *)
(* connectedDevice no caller can set (the service takes only speak from    *)
(* that instance) and whose phrase dictionary stays the built-in one.  The *)
(* speaking flag of that instance, which nothing outside it reads, is not  *)
(* tracked.                                                                *)
(***************************************************************************)
\* some of the amounts and senders simulatePaymentNotification draws from
amounts == { <<"5","0",",","0","0","0">>, <<"1","0","0",",","0","0","0">> }

senders == { <<"D","e","m","o"," ","U","s","e","r">>, <<"J","o","h","n"," ","D","o","e">> }

\* `You have received ${amount} VND from ${sender}`
Announcement(amount, sender) ==
    <<"Y","o","u"," ","h","a","v","e"," ","r","e","c","e","i","v","e","d"," ">> \o amount \o
    <<" ","V","N","D"," ","f","r","o","m"," ">> \o sender

\* speak(message).then(() => onPaymentReceived(amount, sender))
\*                .catch(() => onPaymentReceived(amount, sender)):
\* the calls of the callback, given how the promise of speak settled and
\* whether the callback throws; the catch handler also receives what the then
\* handler throws
Received(amount, sender, promise, callbackThrows) ==
    LET call == [amount |-> amount, sender |-> sender] IN
    IF promise = "resolved"
    THEN IF callbackThrows THEN <<call, call>> ELSE <<call>>
    ELSE <<call>>

\* simulatePaymentNotification: the announcement is built and handed to the
\* speak of the service's own hook instance, which checks that instance's
\* connectedDevice before anything goes to the engine; the callback is called
\* when the promise of speak has settled
SimulatePaymentNotification ==
    /\ nPayments < MaxPayments
    /\ nPayments' = nPayments + 1
    /\ \E amount \in amounts, sender \in senders, callbackThrows \in BOOLEAN :
         LET message == Announcement(amount, sender)
             payment == [NoPayment EXCEPT
                            !.message = message,
                            !.connected = connectedDevice # None,
                            !.amount = amount,
                            !.sender = sender,
                            !.callbackThrows = callbackThrows,
                            !.received = Received(amount, sender, SpeakPromise(FALSE),
                                                  callbackThrows)]
         IN
         IF DeviceMissing(serviceConnectedDevice)
         THEN /\ lastPayment' = [payment EXCEPT !.alert = "No Device Connected"]
              /\ UNCHANGED <<engineCalls, spoken>>
         ELSE /\ lastPayment' = [payment EXCEPT
                                    !.spoke = TRUE,
                                    !.text = Translate(DEFAULT_VIETNAMESE_PHRASES, message)]
              /\ engineCalls' = engineCalls + 1
              /\ spoken' = Translate(DEFAULT_VIETNAMESE_PHRASES, message)
    /\ UNCHANGED devVars
    /\ UNCHANGED <<ActiveTts, initPc, listening, isSpeaking, vietnamesePhrases, calls, timers,
                   utterances, lastDispatch, lastSpeak, nSpeaks>>
    /\ UNCHANGED <<phraseVars, engVars, alertVars, serviceConnectedDevice>>

NextRegistry ==
    \/ Mount
    \/ ConnectToDevice
    \/ ConfirmOK
    \/ PromptOpenSettings
    \/ DisconnectDevice
    \/ ScanForDevices
    \/ ForceConnectToDevice
    \/ ScanDone
    \/ AlertDismiss
    \/ AlertOpenSettings

\* The registry operations never call the engine: its choice is fixed here.
\* A call of openBluetoothSettings stays at its await of Linking in this
\* specification; what follows when Linking settles is part of NextScan and
\* of NextSession.
InitRegistry == Init /\ ActiveTts = "Tts"

SpecRegistry == InitRegistry /\ [][NextRegistry]_vars

\* The scans, those of forceConnectToDevice included, and the answers to the
\* alerts forceConnectToDevice opens.
NextScan ==
    \/ Mount
    \/ ScanForDevices
    \/ ForceConnectToDevice
    \/ ScanDone
    \/ ConfirmOK
    \/ PromptOpenSettings
    \/ LinkingSettles
    \/ AlertDismiss
    \/ AlertOpenSettings

SpecScan == InitRegistry /\ [][NextScan]_vars

\* the mount effect runs, and a timer that is set fires
FairSpecScan == SpecScan /\ WF_vars(Mount) /\ WF_vars(ScanDone)

\* The speech operations, with the operations that decide whether a device is
\* connected; the engine is the native one or the mock.
NextSpeech ==
    \/ Mount
    \/ ConnectToDevice
    \/ ConfirmOK
    \/ DisconnectDevice
    \/ InitTtsListeners
    \/ Speak
    \/ StopSettles
    \/ SpeakSettles
    \/ SpeakNeverSettles
    \/ SettleTimer
    \/ TtsStart
    \/ TtsEnd

SpecSpeech == Init /\ [][NextSpeech]_vars

\* Initialization and the language listing, against an engine whose methods
\* may resolve, reject, throw or never settle.
NextEngine ==
    \/ Mount
    \/ InitTtsListeners
    \/ InitVoicesAnswer
    \/ InitVoicesTimeout
    \/ InitSettles
    \/ InitNeverSettles
    \/ GetAvailableLanguages
    \/ LangVoicesAnswer
    \/ LangVoicesTimeout

SpecEngine == InitEngine /\ [][NextEngine]_vars

\* a timer that is set fires
FairSpecEngine ==
    SpecEngine /\ WF_vars(InitVoicesTimeout) /\ WF_vars(LangVoicesTimeout)

\* The phrase dictionary and the speak calls that read it.
NextPhrases ==
    \/ SessionMount
    \/ ConnectToDevice
    \/ ConfirmOK
    \/ AddPhrase
    \/ HandleAddPhrase
    \/ SpeakWithDictionary
    \/ SettleTimer

\* The translation does not depend on the engine: the mock engine is the one
\* selected here.  handleAddPhrase is a handler of the screen, so the mount
\* is the mount of the screen.
InitPhrases == Init /\ ActiveTts = "MockTts"

SpecPhrases == InitPhrases /\ [][NextPhrases]_vars

\* The round trips of a custom phrase: it is added, then spoken.
NextRoundTrip ==
    \/ Mount
    \/ ConnectToDevice
    \/ ConfirmOK
    \/ DisconnectDevice
    \/ AddRoundTripPhrase
    \/ SpeakAddedPhrase
    \/ SettleTimer

SpecRoundTrip == InitPhrases /\ [][NextRoundTrip]_vars

\* The payment notifications, with the operations that decide whether a
\* device is connected in the app.
NextPayments ==
    \/ Mount
    \/ ConnectToDevice
    \/ ConfirmOK
    \/ DisconnectDevice
    \/ SimulatePaymentNotification

SpecPayments == Init /\ [][NextPayments]_vars

\* What is going on in the session at once: the operations whose number the
\* model bounds, the open alerts, and the connection.
Footprint ==
    nScans + nForce + nSpeaks + nPhrases + nLang + Len(prompts)
    + (IF connectedDevice = None THEN 0 ELSE 1)
    + Len(screenAlerts) + linking

\* The whole session is explored as far as MaxOps things going on at once; an
\* operation that adds to them is only started below that.
WithinBudget == Footprint < MaxOps

SessionConnectToDevice == WithinBudget /\ ConnectToDevice

SessionScanForDevices == WithinBudget /\ ScanForDevices

SessionForceConnectToDevice == WithinBudget /\ ForceConnectToDevice

SessionCheckSystemConnection == WithinBudget /\ CheckSystemConnection

SessionHandleConnectByButton == WithinBudget /\ HandleConnectByButton

SessionSpeak == WithinBudget /\ Speak

SessionAddPhrase == WithinBudget /\ AddPhrase

SessionHandleAddPhrase == WithinBudget /\ HandleAddPhrase

SessionGetAvailableLanguages == WithinBudget /\ GetAvailableLanguages

SessionOpenBluetoothSettings == WithinBudget /\ OpenBluetoothSettings

\* Every operation of the hook and of the screen, with the mock engine.
NextSession ==
    \/ SessionMount
    \/ SessionConnectToDevice
    \/ ConfirmOK
    \/ PromptOpenSettings
    \/ DisconnectDevice
    \/ SessionScanForDevices
    \/ SessionForceConnectToDevice
    \/ ScanDone
    \/ SessionCheckSystemConnection
    \/ SessionHandleConnectByButton
    \/ AlertDismiss
    \/ AlertOpenSettings
    \/ SessionOpenBluetoothSettings
    \/ LinkingSettles
    \/ AlertScan
    \/ AlertSelect
    \/ SessionSpeak
    \/ SettleTimer
    \/ SessionAddPhrase
    \/ SessionHandleAddPhrase
    \/ SessionGetAvailableLanguages

InitSession == Init /\ ActiveTts = "MockTts"

SpecSession == InitSession /\ [][NextSession]_vars

(***************************************************************************)
(* Properties of the device registry (checked under SpecRegistry, and      *)
(* under FairSpecScan where a scan has to complete)                         *)
(***************************************************************************)
Flagged == { i \in DOMAIN devices : devices[i].connected }

\* C1: in every reachable state at most one device of the list carries
\* connected = true.
C1_AtMostOneConnected == Cardinality(Flagged) <= 1

\* C2: right after the confirmation of connect(D), connectedDevice is D and
\* exactly one device of the list is flagged connected, the one with D's id.
C2_ConfirmedIsTheOnlyConnected ==
    last.op = "confirm" =>
        /\ connectedDevice # None
        /\ connectedDevice.id = last.target.id
        /\ Cardinality(Flagged) = 1
        /\ \A i \in Flagged : devices[i].id = last.target.id

\* C3: every disconnect() leaves connectedDevice = none and no device flagged
\* connected, and a disconnect() that directly follows a disconnect() changes
\* neither the list, the connected device, the scan state nor the open alerts.
C3_DisconnectClearsAndIsIdempotent ==
    [][DisconnectDevice =>
          /\ connectedDevice' = None
          /\ \A i \in DOMAIN devices' : ~devices'[i].connected
          /\ (last.op = "disconnect" =>
                  UNCHANGED <<devices, connectedDevice, isScanning, scanQ, prompts>>)
      ]_vars

\* C3 witness: a disconnect() has just cleared an existing connection.
C3_Witness ==
    /\ last.op = "disconnect"
    /\ last.result
    /\ Len(devices) > 0
    /\ connectedDevice = None

\* C9: forceConnect(query) with a non-empty query never returns without a
\* connection under way: it reports true and a device (found or synthesized
\* with the query as its name) is being connected.
C9_ForceConnectAlwaysConnects ==
    (last.op = "forceConnect" /\ last.query # <<>>) =>
        /\ last.result
        /\ last.target # None
        /\ (last.synth => last.target.name = last.query)

\* C10: when forceConnect(query) ran a scan and the list that scan produced
\* holds a device matching the query, forceConnect connects to that device and
\* synthesizes nothing.
C10_ScanResultIsSearched ==
    (last.op = "forceConnect" /\ last.scanned /\ last.found # None) =>
        /\ ~last.synth
        /\ last.target = last.found

\* the list the last completed scan set, without the placeholder that the
\* forceConnectToDevice awaiting that scan appended after it
ScannedList ==
    IF last.op = "forceConnect" /\ last.synth THEN SubSeq(devices, 1, Len(devices) - 1)
    ELSE devices

ScanJustCompleted == last.op = "scan" \/ (last.op = "forceConnect" /\ last.scanned)

\* C11: the ids of a list produced by a scan are pairwise distinct, whatever
\* the random id generation returned.
C11_ScanIdsDistinct ==
    ScanJustCompleted =>
        \A i, j \in DOMAIN ScannedList :
            i # j => ScannedList[i].id # ScannedList[j].id

\* the shape of generateRandomId's result: six pairs of hex digits joined by ":"
IsGeneratedId(s) ==
    /\ Len(s) = 17
    /\ \A k \in 1..17 : IF k % 3 = 0 THEN s[k] = ":" ELSE s[k] \in hexChars

\* C12: after a completed scan the list is the three baseline devices followed
\* by at most three devices of the candidate pool, each with generated
\* identifiers; it has between 3 and 6 entries.
C12_ScanListShape ==
    ScanJustCompleted =>
        /\ Len(ScannedList) >= 3
        /\ Len(ScannedList) <= 6
        /\ SubSeq(ScannedList, 1, 3) = MOCK_DEVICES
        /\ \A k \in 4..Len(ScannedList) :
              /\ \E c \in DOMAIN additionalNames : ScannedList[k].name = additionalNames[c]
              /\ IsGeneratedId(ScannedList[k].id)
              /\ IsGeneratedId(ScannedList[k].address)
              /\ ~ScannedList[k].connected

\* C12 witness: a scan has completed with the largest list it can produce.
C12_Witness ==
    /\ last.op = "scan"
    /\ Len(devices) = 6
    /\ devices[6].name = additionalNames[3]

\* a step in which a scan starts, and one in which a scan completes
ScanStarted == Len(scanQ') > Len(scanQ)

ScanCompleted == Len(scanQ') < Len(scanQ)

\* C22: a scan sets the scanning flag when it starts; every scan that started
\* completes; and when it completes the scanning flag is cleared and the list
\* is exactly what the scan produced (the baseline list on its error path), so
\* that nothing of the previous list is left unless the scan produced it.
C22_ScanCycle ==
    /\ [][/\ ScanStarted => isScanning'
          /\ ScanCompleted => /\ ~isScanning'
                              /\ ScannedList' \in ScanOutcomes \cup {ScanFallback}
         ]_vars
    /\ \A k \in 1..(MaxScans + MaxForce) : (Len(scanQ) = k) ~> (Len(scanQ) < k)

\* C22 witness: a scan has completed after forceConnectToDevice had appended
\* the placeholder "XYZ" (its alert is still open): the placeholder is gone.
C22_Witness ==
    /\ last.op = "scan"
    /\ ~isScanning
    /\ scanQ = <<>>
    /\ \E j \in DOMAIN prompts : prompts[j].name = <<"X","Y","Z">>
    /\ \A i \in DOMAIN devices : devices[i].name # <<"X","Y","Z">>

\* a step in which a connection is requested and no scan completes: the alert
\* of connectToDevice opens
ConnectRequested == Len(prompts') > Len(prompts) /\ ~ScanCompleted

\* a step in which "Open Bluetooth Settings" is the answer to such an alert
SettingsAnswered == Len(prompts') < Len(prompts) /\ last'.op = "openSettings"

\* C23: connectedDevice becomes a device D only by the "OK" given to an open
\* alert of a connection request for D, and it is then D flagged connected; a
\* connection request as such, and the answer "Open Bluetooth Settings",
\* leave the connected device and every connected flag as they were.
C23_ConnectedOnlyByConfirmation ==
    [][/\ (connectedDevice' # connectedDevice /\ connectedDevice' # None) =>
             /\ last'.op = "confirm"
             /\ Len(prompts') = Len(prompts) - 1
             /\ \E i \in DOMAIN prompts :
                   /\ last'.target = prompts[i]
                   /\ connectedDevice' = [prompts[i] EXCEPT !.connected = TRUE]
       /\ (ConnectRequested \/ SettingsAnswered) =>
             /\ connectedDevice' = connectedDevice
             /\ \A i \in DOMAIN devices : devices'[i] = devices[i]
             /\ \A i \in DOMAIN devices' : i > Len(devices) => ~devices'[i].connected
      ]_vars

\* C23 witness: while one device was connected, a request for another was
\* answered with "Open Bluetooth Settings"; the first is still the connected one.
C23_Witness ==
    /\ last.op = "openSettings"
    /\ connectedDevice # None
    /\ connectedDevice.connected
    /\ \E i \in DOMAIN devices : devices[i].connected /\ devices[i].id = connectedDevice.id

\* C29: when connectToDevice(D) or forceConnectToDevice(query) has just
\* reported true, a device is connected: D, respectively the device that
\* forceConnectToDevice found or named after the query.
C29_TrueResultMeansConnected ==
    /\ (last.op = "connect" /\ last.result) =>
          /\ connectedDevice # None
          /\ connectedDevice.id = prompts[Len(prompts)].id
    /\ (last.op = "forceConnect" /\ last.result) =>
          /\ connectedDevice # None
          /\ connectedDevice.id = last.target.id

\* C30: whenever a device is connected, the list holds a device with its id,
\* and that device is flagged connected.
C30_ConnectedDeviceIsListed ==
    connectedDevice # None =>
        \E i \in DOMAIN devices :
            devices[i].id = connectedDevice.id /\ devices[i].connected

\* C32: the scanning flag is true exactly while some scan is in flight: the
\* completion of one scan does not clear it while another scan, started by the
\* user or inside forceConnectToDevice, is still waiting on its timer.
C32_ScanningWhileInFlight == isScanning <=> scanQ # <<>>

(***************************************************************************)
(* Properties of speak (checked under SpecSpeech)                          *)
(***************************************************************************)
\* C4: a speak issued while no device is connected fails at once: what it
\* reports to its caller is a DeviceRequired outcome, which is not what a
\* successful speak reports; it calls neither stop nor speak of the engine and
\* leaves the speaking flag (and every timer and pending call) as it was.
C4_SpeakWithoutDeviceFails ==
    [][(nSpeaks' = nSpeaks + 1 /\ connectedDevice = None) =>
          /\ lastSpeak'.id = nSpeaks'
          /\ lastSpeak'.promise # SpeakPromise(FALSE)
          /\ UNCHANGED <<engineCalls, isSpeaking, utterances, timers, calls, spoken,
                         lastDispatch>>
      ]_vars

\* nothing is pending: no speak is suspended, no settle timer is set and the
\* engine holds no utterance
Quiescent == calls = {} /\ timers = <<>> /\ utterances = <<>>

\* C5: once every engine call, engine event and settle timer has completed, the
\* speaking flag is false.
C5_FlagNeverStuck == Quiescent => ~isSpeaking

(***************************************************************************)
(* Properties of the phrase dictionary (checked under SpecPhrases)         *)
(***************************************************************************)
\* a step in which speak hands a text to the engine
Dispatched == lastDispatch'.id # lastDispatch.id

\* the keys of the dictionary that the lower-cased message contains
MatchingKeys(message) ==
    UNION { { k \in { firstInserted[i] : i \in DOMAIN firstInserted } : Includes(low, k) } :
            low \in { ToLowerCase(message) } }

\* of a set of keys, the one that was added first
FirstAdded(keys) ==
    firstInserted[CHOOSE i \in DOMAIN firstInserted :
                     /\ firstInserted[i] \in keys
                     /\ \A j \in 1..(i - 1) : firstInserted[j] \notin keys]

\* of a set of array-index keys, the numerically smallest
SmallestIndex(keys) == CHOOSE k \in keys : \A k2 \in keys \ {k} : IndexLess(k, k2)

\* C13 as stated: the text handed to the engine is the value of the matching
\* key that was inserted first, and the message itself when no key matches.
C13_FirstInsertedKeyWins ==
    [][Dispatched =>
          \E message \in { lastDispatch'.message } :
          \E keys \in { MatchingKeys(message) } :
             spoken' = IF keys = {} THEN message
                       ELSE ValueOf(vietnamesePhrases, FirstAdded(keys))
      ]_vars

\* C13 amended: the text handed to the engine is the value of the first
\* matching key in the order in which the object lists its keys (keys that are
\* array indices in ascending numeric order, then the other keys in the order
\* of their first insertion), and the message itself when no key matches.
C13_FirstListedKeyWins ==
    [][Dispatched =>
          \E message \in { lastDispatch'.message } :
          \E keys \in { MatchingKeys(message) } :
          \E indexKeys \in { { k \in keys : IsArrayIndex(k) } } :
             spoken' = IF keys = {} THEN message
                       ELSE IF indexKeys # {}
                       THEN ValueOf(vietnamesePhrases, SmallestIndex(indexKeys))
                       ELSE ValueOf(vietnamesePhrases, FirstAdded(keys))
      ]_vars

\* C13 witness: "50" was added, then "5", with different translations; the
\* dictionary lists "5" before "50" and both before "hello", and "Hello 50",
\* which contains all three, went to the engine as the translation of "5".
C13_Witness ==
    /\ firstInserted[Len(firstInserted) - 1] = <<"5","0">>
    /\ firstInserted[Len(firstInserted)] = <<"5">>
    /\ vietnamesePhrases[1][1] = <<"5">>
    /\ vietnamesePhrases[2][1] = <<"5","0">>
    /\ vietnamesePhrases[1][2] # vietnamesePhrases[2][2]
    /\ lastDispatch.message = <<"H","e","l","l","o"," ","5","0">>
    /\ spoken = vietnamesePhrases[1][2]
    /\ engineCalls > 0

\* a step that is a phrase addition
PhraseAdded == nPhrases' = nPhrases + 1

\* the entries of a dictionary other than that of one key
OtherEntries(dict, key) == { dict[i] : i \in { j \in DOMAIN dict : dict[j][1] # key } }

\* C14: an addition with two non-blank arguments leaves the translation stored
\* under the lower-cased English phrase, replacing whatever that key held; no
\* key occurs twice, and every other entry is as it was.
C14_AddPhraseStoresAndReplaces ==
    [][(PhraseAdded /\ Trim(lastPhrase'.english) # <<>> /\ Trim(lastPhrase'.vietnamese) # <<>>) =>
          \E key \in { ToLowerCase(lastPhrase'.english) } :
             /\ HasKey(vietnamesePhrases', key)
             /\ ValueOf(vietnamesePhrases', key) = lastPhrase'.vietnamese
             /\ \A i, j \in DOMAIN vietnamesePhrases' :
                   i # j => vietnamesePhrases'[i][1] # vietnamesePhrases'[j][1]
             /\ OtherEntries(vietnamesePhrases', key) = OtherEntries(vietnamesePhrases, key)
      ]_vars

\* C14 witness: "VND" was added with one translation and then again with
\* another: the key "vnd" holds the later one, and the dictionary has its
\* fifteen built-in keys and this one.
C14_Witness ==
    /\ nPhrases = 2
    /\ lastPhrase.english = <<"V","N","D">>
    /\ lastPhrase.vietnamese = <<"V","u","i">>
    /\ lastPhrase.held = <<"X","i","n">>
    /\ phraseAlert = "Phrase Added"
    /\ Len(vietnamesePhrases) = Len(DEFAULT_VIETNAMESE_PHRASES) + 1
    /\ ValueOf(vietnamesePhrases, <<"v","n","d">>) = <<"V","u","i">>

\* C15: an addition in which either argument is empty or consists of white
\* space only is refused with an input error (the hook's "Input Error" or the
\* screen's "Missing Information") and leaves the dictionary as it was.
C15_BlankPhraseRefused ==
    [][(PhraseAdded
          /\ (Trim(lastPhrase'.english) = <<>> \/ Trim(lastPhrase'.vietnamese) = <<>>)) =>
          /\ phraseAlert' \in {"Input Error", "Missing Information"}
          /\ UNCHANGED vietnamesePhrases
      ]_vars

\* C34: after a successful addPhrase(e, v), a speak of the phrase e, in any
\* letter case, hands exactly v to the engine, also when e contains a key that
\* was already present (checked under SpecRoundTrip).
C34_AddedPhraseIsSpoken ==
    [][(Dispatched
          /\ phraseAlert = "Phrase Added"
          /\ ToLowerCase(lastDispatch'.message) = ToLowerCase(lastPhrase.english)) =>
          spoken' = lastPhrase.vietnamese
      ]_vars

\* C35: the dictionary never holds the empty string as a key.
C35_NoEmptyKey == \A i \in DOMAIN vietnamesePhrases : vietnamesePhrases[i][1] # <<>>

\* C35 witness: an addition with an empty English phrase and a translation
\* was attempted through the hook, and refused.
C35_Witness ==
    /\ lastPhrase.via = "hook"
    /\ lastPhrase.english = <<>>
    /\ lastPhrase.vietnamese # <<>>
    /\ phraseAlert = "Input Error"

(***************************************************************************)
(* Properties of initialization and of the voice queries                   *)
(* (checked under SpecEngine and FairSpecEngine)                           *)
(***************************************************************************)
\* a voice query obeys the race: the fallback of the timeout only with the timer
\* fired, no result while the engine is silent and the timer has not fired,
\* and the fallback whenever the engine rejected or threw
QueryObeysRace(q) ==
    /\ q.by = "timeout" => (q.timer = "fired" /\ q.result = FallbackVoices)
    /\ (q.engine = "pending" /\ q.timer # "fired") => q.by = "none"
    /\ (q.engine = "pending" /\ q.by # "none") => q.by = "timeout"
    /\ q.by = "error" => q.result = FallbackVoices

\* C16: a voice query never hangs and falls back correctly: it is resolved
\* with [{language: "vi-VN"}] by the timeout, and not before the timeout fired,
\* when voices() stays silent, and with the same fallback when voices()
\* rejects; every query that was started is eventually resolved.
C16_VoiceQueryNeverHangs ==
    /\ [](QueryObeysRace(initVoices)
           /\ \A i \in DOMAIN langCalls : QueryObeysRace(langCalls[i].query))
    /\ (initPc = "voices") ~> (initVoices.by # "none" /\ initPc # "voices")
    /\ \A i \in 1..MaxLangCalls :
          (Len(langCalls) >= i /\ langCalls[i].pc = "voices") ~>
          (Len(langCalls) >= i /\ langCalls[i].pc = "done")

\* C16 witness: the engine never answered a getAvailableLanguages call, the
\* timer fired, and the call returned the language of the fallback.
C16_Witness ==
    /\ Len(langCalls) >= 1
    /\ langCalls[1].query.engine = "pending"
    /\ langCalls[1].query.by = "timeout"
    /\ langCalls[1].query.result = FallbackVoices
    /\ langCalls[1].returned = <<"vi-VN">>

\* of a voice query before and after a step: the race was decided before, and
\* its outcome is what it was
OutcomeKept(q, r) == q.by # "none" => (r.by = q.by /\ r.result = q.result /\ r.array = q.array)

\* of a voice query before and after a step: the step decided the race, and
\* the first completion won: the engine's answer with the timer cancelled, or
\* the fallback of the timer that fired
FirstWins(q, r) ==
    (q.by = "none" /\ r.by # "none") =>
        /\ (q.engine = "pending" /\ r.engine = "answered") =>
              /\ r.by = "engine"
              /\ r.timer = "cleared"
              /\ \E a \in EngineVoiceAnswers : r.result = a.list
        /\ (q.timer = "armed" /\ r.timer = "fired") =>
              /\ r.by = "timeout"
              /\ r.result = FallbackVoices
              /\ r.engine = "pending"

\* C27: each voice query has one outcome, that of the completion that came
\* first, and keeps it: a timer that fires after the answer, and an answer or
\* an error that comes after the timeout, change neither the outcome, nor
\* what getAvailableLanguages returned, nor the available languages.
C27_RaceYieldsOneResult ==
    [][/\ OutcomeKept(initVoices, initVoices')
       /\ FirstWins(initVoices, initVoices')
       /\ \A i \in DOMAIN langCalls :
             /\ OutcomeKept(langCalls[i].query, langCalls'[i].query)
             /\ FirstWins(langCalls[i].query, langCalls'[i].query)
             /\ langCalls[i].pc = "done" =>
                   /\ langCalls'[i].pc = "done"
                   /\ langCalls'[i].returned = langCalls[i].returned
                   /\ (langCalls'[i].query # langCalls[i].query =>
                          availableLanguages' = availableLanguages)
      ]_vars

\* C27 witness: the timeout decided a getAvailableLanguages call, the call
\* returned the fallback's language, and voices() answered afterwards.
C27_Witness ==
    /\ Len(langCalls) >= 1
    /\ langCalls[1].pc = "done"
    /\ langCalls[1].query.by = "timeout"
    /\ langCalls[1].query.engine = "answered"
    /\ langCalls[1].returned = <<"vi-VN">>
    /\ availableLanguages = <<"vi-VN">>

NoDuplicates(list) == \A i, j \in DOMAIN list : i # j => list[i] # list[j]

\* a step in which the getAvailableLanguages call i returns
LangReturned(i) ==
    /\ langCalls'[i].pc = "done"
    /\ i > Len(langCalls) \/ langCalls[i].pc # "done"

\* C28: every getAvailableLanguages call returns, whatever the engine does
\* (an answer of any kind, a rejection, a throw, silence); the list it returns
\* contains "vi-VN" and no tag twice; and when it returns, the available
\* languages are that list.
C28_LanguagesAlwaysListVietnamese ==
    /\ [](\A i \in DOMAIN langCalls :
             langCalls[i].pc = "done" =>
                /\ \E k \in DOMAIN langCalls[i].returned : langCalls[i].returned[k] = "vi-VN"
                /\ NoDuplicates(langCalls[i].returned))
    /\ [][\A i \in DOMAIN langCalls' :
             LangReturned(i) => availableLanguages' = langCalls'[i].returned]_vars
    /\ \A i \in 1..MaxLangCalls :
          (Len(langCalls) >= i) ~> (Len(langCalls) >= i /\ langCalls[i].pc = "done")

\* C28 witness: voices() answered with four voices, two of them "en-US" and one
\* without a language; the call returned "en-US" and "vi-VN", once each, and
\* that is the state.
C28_Witness ==
    /\ Len(langCalls) >= 1
    /\ langCalls[1].query.by = "engine"
    /\ Len(langCalls[1].query.result) = 4
    /\ langCalls[1].returned = <<"en-US", "vi-VN">>
    /\ availableLanguages = <<"en-US", "vi-VN">>

\* C18: initTts is never left waiting for an engine call that does not
\* settle, and once it has ended the available languages contain "vi-VN".
C18_InitAlwaysCompletes ==
    /\ initPc # "hung"
    /\ initPc = "done" => \E i \in DOMAIN availableLanguages : availableLanguages[i] = "vi-VN"

\* C19: when initTts has ended, a failed setDefaultRate (rejected or thrown)
\* did not keep setDefaultPitch from being called, and a failed
\* setDefaultLanguage kept neither of the two from being called.
C19_SubStepsIndependent ==
    initPc = "done" =>
        /\ "setDefaultRate" \in initFailed => "setDefaultPitch" \in initCalled
        /\ "setDefaultLanguage" \in initFailed => "setDefaultRate" \in initCalled
        /\ ("setDefaultLanguage" \in initFailed /\ "setDefaultRate" \notin initFailed) =>
              "setDefaultPitch" \in initCalled

(***************************************************************************)
(* Properties of speak, continued (checked under SpecSpeech)               *)
(***************************************************************************)
\* C6: when the engine fails during speak, what speak reports to its caller
\* differs from what a successful speak reports, and the flag is clear then.
C6_FailureIsReportedDistinctly ==
    [][(lastSpeak' # lastSpeak /\ lastSpeak'.failed) =>
          /\ lastSpeak'.promise # SpeakPromise(FALSE)
          /\ ~isSpeaking'
      ]_vars

\* C7: an utterance is dispatched while the engine still holds an unfinished
\* one only after the same speak requested stop().
C7_StopBeforeNewUtterance == lastDispatch.inFlight => lastDispatch.stopRequested

\* the speech request of speak call `id` is in progress: dispatched, and neither
\* its own completion signal nor its own settle timer has come
InProgress(id) ==
    \/ \E c \in calls : c.id = id /\ c.pc = "speak"
    \/ /\ \E k \in DOMAIN timers : timers[k] = id
       /\ \/ ActiveTts = "MockTts"
          \/ \E i \in DOMAIN utterances :
                utterances[i].id = id /\ utterances[i].st \in {"queued", "started"}

\* C17: no speak call is ever left waiting for an engine call that does not
\* settle: every speak call can still return to its caller.
C17_SpeakAlwaysReturns ==
    \A c \in calls : c.pc \notin {"stop never settles", "speak never settles"}

\* C20: the engine reference never changes after startup, whatever engine
\* call fails; and with the mock engine every engine call resolves at once and
\* without error: initTts has run to its end within the mount, no speak call is
\* ever suspended at the engine and none reports a failure.
C20_EngineChosenOnce ==
    /\ [][ActiveTts' = ActiveTts]_vars
    /\ [](ActiveTts = "MockTts" =>
             /\ calls = {}
             /\ ~lastSpeak.failed
             /\ initFailed = {}
             /\ initPc = IF mounted THEN "done" ELSE "none"
             /\ mounted => initCalled = EngineMethods)

\* C20 witness: with the mock engine two speaks went through stop and speak
\* of the engine after initTts had run.
C20_Witness ==
    /\ ActiveTts = "MockTts"
    /\ initPc = "done"
    /\ nSpeaks = MaxSpeaks
    /\ engineCalls >= 3
    /\ lastDispatch.stopRequested

\* C8: the speaking flag is true for as long as a speech request is in
\* progress.
C8_FlagSetWhileInProgress == \A id \in 1..nSpeaks : InProgress(id) => isSpeaking

\* C31: in every reachable state in which the speaking flag is true a device
\* is connected (the session is never speaking while idle).
C31_SpeakingImpliesConnected == isSpeaking => connectedDevice # None

(***************************************************************************)
(* Properties of the payment notifications (checked under SpecPayments)    *)
(***************************************************************************)
\* C24: when a payment notification is processed while a device is connected
\* in the app, the engine's speak is called with the announcement
\* "You have received <amount> VND from <sender>".
C24_PaymentIsSpoken ==
    (nPayments > 0 /\ lastPayment.connected) =>
        /\ lastPayment.spoke
        /\ lastPayment.text = lastPayment.message
        /\ \E amount \in amounts, sender \in senders :
              lastPayment.message = Announcement(amount, sender)

\* C33: for every processed payment the onPaymentReceived callback is called
\* exactly once, with that payment's amount and sender, also when the callback
\* itself throws.
C33_CallbackExactlyOnce ==
    nPayments > 0 =>
        lastPayment.received = << [amount |-> lastPayment.amount,
                                   sender |-> lastPayment.sender] >>

(***************************************************************************)
(* Properties of the whole session (checked under SpecSession)             *)
(***************************************************************************)
\* a step in which checkSystemConnection is called, or a button of its alert
\* is pressed, or openBluetoothSettings goes on after its await
CheckStep ==
    \/ last'.op = "checkSystemConnection" /\ screenAlerts' = Append(screenAlerts, CheckAlert)
    \/ \E i \in DOMAIN screenAlerts :
          screenAlerts[i] = CheckAlert /\ screenAlerts' = RemoveAt(screenAlerts, i)
    \/ linking' < linking

\* C21: checkSystemConnection, and either button of the alert it opens, leaves
\* the device list, the connected device, the scanning flag, the speaking
\* flag, the phrase dictionary and the available languages as they were.
C21_CheckChangesNothing ==
    [][CheckStep =>
          UNCHANGED <<devices, connectedDevice, isScanning, isSpeaking, vietnamesePhrases,
                      availableLanguages>>
      ]_vars

\* C21 witness: checkSystemConnection was called while a device was connected
\* and flagged in the list, and its alert is open.
C21_Witness ==
    /\ last.op = "checkSystemConnection"
    /\ screenAlerts = <<CheckAlert>>
    /\ connectedDevice # None
    /\ \E i \in DOMAIN devices : devices[i].connected
    /\ availableLanguages # <<>>

\* a step in which handleConnectByButton runs on an empty device list
ButtonOnEmptyList ==
    /\ devices = <<>>
    /\ last'.op = "connectByButton"
    /\ Len(screenAlerts') = Len(screenAlerts) + 1

\* a step in which forceConnectToDevice comes to its end with an empty device
\* list: at once, or after the scan it awaited
ForceOnEmptyList ==
    \/ nForce' = nForce + 1 /\ scanQ' = scanQ /\ devices = <<>>
    \/ ScanCompleted /\ Head(scanQ).owner = "force" /\ Head(scanQ).captured = <<>>

\* C25: a connection attempt on an empty device list opens no connection
\* request and connects nothing, and it is answered with an alert: the
\* connect button with "No Devices Found", whose buttons start a scan or open
\* the Bluetooth settings, and forceConnectToDevice with "No Devices Found"
\* and the result false.
C25_EmptyListConnectIsRouted ==
    [][/\ ButtonOnEmptyList =>
             /\ prompts' = prompts
             /\ connectedDevice' = connectedDevice
             /\ screenAlerts'[Len(screenAlerts')].title = "No Devices Found"
             /\ HasButton(screenAlerts'[Len(screenAlerts')], "Scan for Devices")
             /\ HasButton(screenAlerts'[Len(screenAlerts')], "Open Bluetooth Settings")
       /\ ForceOnEmptyList =>
             /\ prompts' = prompts
             /\ connectedDevice' = connectedDevice
             /\ last'.alert = "No Devices Found"
             /\ ~last'.result
      ]_vars

\* C25 witness: the connect button was pressed on an empty list and the scan
\* its alert offers was chosen; no connection request was made.
C25_Witness ==
    /\ last.op = "connectByButton"
    /\ last.alert = "No Devices Found"
    /\ screenAlerts = <<>>
    /\ nScans = 1
    /\ isScanning
    /\ prompts = <<>>
    /\ connectedDevice = None

\* C26: the dictionary is the built-in set until the first addition, and it
\* changes only in a step that is a phrase addition, one that was accepted:
\* no scan, connection, disconnection, forceConnect, speak, connection check
\* or language listing changes it.
C26_DictionaryChangedOnlyByAddPhrase ==
    /\ [](nPhrases = 0 => vietnamesePhrases = DEFAULT_VIETNAMESE_PHRASES)
    /\ [][vietnamesePhrases' # vietnamesePhrases =>
             (PhraseAdded /\ phraseAlert' = "Phrase Added")]_vars

\* C26 witness: a phrase was added, so that the dictionary differs from the
\* built-in set, and a scan has completed in the same session.
C26_Witness ==
    /\ nPhrases = 1
    /\ phraseAlert = "Phrase Added"
    /\ vietnamesePhrases # DEFAULT_VIETNAMESE_PHRASES
    /\ last.op = "scan"
    /\ mounted

====
